---- MODULE Spec2Model ----
(***************************************************************************)
(* Per-guild playback scheduler of tansenmain.py together with the queue   *)
(* and settings rows of database.py.                                       *)
(*                                                                         *)
(* The program runs on one asyncio event loop: a coroutine runs without    *)
(* interruption between two awaits that suspend, so every action below is  *)
(* the code between two such suspension points.  The database helpers are  *)
(* synchronous calls made on the event loop.  The audio player of a voice  *)
(* client runs in its own thread and calls the `after` callback once when  *)
(* the stream ends (naturally, or by vc.stop() / vc.disconnect()).         *)
(*                                                                         *)
(* vc.disconnect() clears the client's connected flag, awaits the socket   *)
(* close, and only then unregisters the client from bot.voice_clients.     *)
(*                                                                         *)
(* Volumes are kept as integer percents (0.7 is 70).  The functions of     *)
(* database.py and lyrics.py that are studied on their own have their own  *)
(* specifications; fnIn and fnOut record their calls.                      *)
(***************************************************************************)
EXTENDS Integers, Sequences, FiniteSets, Bags, TLC

\* ---------------------------------------------------------------- bounds
MaxQueue == 3          \* longest queue a play request is issued against
MaxAdv == 2            \* advances pending when a play request is accepted
MaxTimers == 1         \* idle timers counted per kind (saturating)
MaxPending == 1        \* play commands suspended in their resolver call
MaxLog == 3            \* add_song_to_queue calls recorded in addLog
MaxLookups == 5        \* get_best_lyrics calls that may run at once
MaxBlocks == 2         \* runs of equal lines in a text given to _is_likely_lyrics

\* ------------------------------------------------------------- universes
Guilds == {1, 2}
Active == {1}          \* guilds that receive commands in Spec
Titles == {"A", "B"}

\* Python None for a song; a song never has the empty title.
None == [title |-> "", guild_id |-> 0]

\* build_song_dict: the fields the scheduler reads.  guild_id 0 is None.
build_song_dict(title, guild_id) == [title |-> title, guild_id |-> guild_id]

Songs == {build_song_dict(t, gid) : t \in Titles, gid \in {0} \cup Guilds}

\* get_best_lyrics calls; all ask for one title, with or without an artist
Lookups == 1..MaxLookups

Artists == {"", "x"}

\* the cache keys f"best:{artist}:{title}", f"ovh:{artist}:{title}" and
\* f"genius:{q}" with q = f"{artist} {title}".strip()
Keys == [kind : {"best", "ovh", "genius"}, artist : Artists]

CACHE_TTL == 3600

\* asyncio.Semaphore(4)
FETCH_SEMAPHORE == 4

\* the values time.time() takes: around the expiry of an entry stored at 0
Instants == {0, 1, CACHE_TTL, CACHE_TTL + 1}

VARIABLES
    queues,          \* table queues: guild -> row (present, queue_json)
    guild_settings,  \* table guild_settings: guild -> row
    now_playing,     \* dict now_playing: guild -> song or None
    voice_locks,     \* dict voice_locks: guild -> lock is held
    connected,       \* guild -> a connected voice client exists
    streams,         \* guild -> audio players active on the voice client
    afterPending,    \* guild -> ended players whose after callback has not run
    scheduled,       \* guild -> play_next_in_guild tasks created, not started
    resolving,       \* guild -> bag of advances awaiting make_discord_audio_source
    timers,          \* guild -> idle_disconnect tasks asleep (live / dead vc)
    playurlPending,  \* guild -> playurl commands awaiting ytdl_extract_info
    closing,         \* guild -> a voice client is inside vc.disconnect(), and who awaits it
    enqSinceArm,     \* history: a song was enqueued after the latest timer was armed
    addLog,          \* history: the add_song_to_queue calls made, in order
    advCount,        \* history: advances started (scenario specification only)
    lastCmd,         \* history: guild -> the last command that acted on the guild
    fnIn,            \* the arguments of the last call of a function checked on its own
    fnOut,           \* what that call returned
    lookups,         \* get_best_lyrics call -> where it is suspended
    permits,         \* _FETCH_SEMAPHORE: the value of the semaphore
    cache,           \* _CACHE: key -> (value, expiry) or no entry
    clock,           \* time.time(), in seconds
    token            \* GENIUS_TOKEN is set

vars == <<queues, guild_settings, now_playing, voice_locks, connected, streams,
          afterPending, scheduled, resolving, timers, playurlPending, closing,
          enqSinceArm, addLog, advCount, lastCmd, fnIn, fnOut,
          lookups, permits, cache, clock, token>>

hist == <<enqSinceArm, addLog, advCount, lastCmd>>

fn == <<fnIn, fnOut>>

lyr == <<lookups, permits, cache, clock, token>>

\* --------------------------------------------------------- lyrics.py cache
\* the value of _CACHE.get(key) when the key is absent
NoEntry == [present |-> FALSE, val |-> "", expiry |-> 0]

\* _cache_set that stores the time of the call as the expiry
cache_set_no_ttl(C, key, val, now) ==
    [C EXCEPT ![key] = [present |-> TRUE, val |-> val, expiry |-> now]]

\* _cache_set: _CACHE[key] = (val, time.time() + ttl)
cache_set(C, key, val, now) ==
    [C EXCEPT ![key] = [present |-> TRUE, val |-> val, expiry |-> now + CACHE_TTL]]

\* _cache_get returns the value ("" for None) and pops an expired entry
cache_get(C, key, now) ==
    IF ~C[key].present THEN [val |-> "", store |-> C]
    ELSE IF now > C[key].expiry
         THEN [val |-> "", store |-> [C EXCEPT ![key] = NoEntry]]
         ELSE [val |-> C[key].val, store |-> C]

\* a get_best_lyrics call that is not running; a running call is suspended
\* in `async with _FETCH_SEMAPHORE` (pc "wait") or in its HTTP request (pc
\* "fetch") of step "ovh", "search" or "page", with `left` more pages to try
Idle == [pc |-> "idle", step |-> "", artist |-> "", left |-> 0]

\* the lyrics module after import: nothing cached, no fetch in progress
LyricsIdle ==
    /\ lookups = [l \in Lookups |-> Idle]
    /\ permits = FETCH_SEMAPHORE
    /\ cache = [k \in Keys |-> NoEntry]
    /\ clock = 0
    /\ token = TRUE

\* ------------------------------------------------------------ database.py
\* A TEXT column holds NULL or a text; a text is kept as the tuple of its
\* tokens.  A REAL or INTEGER column holds NULL or a number.
SqlNull == [null |-> TRUE, text |-> <<>>]

Text(tokens) == [null |-> FALSE, text |-> tokens]

NullNum == [null |-> TRUE, num |-> 0]

Num(n) == [null |-> FALSE, num |-> n]

\* json.dumps of a song dict and of a list of songs
json_dumps(song) == Text(<<"{", song.title, song.guild_id, "}">>)

json_dumps_list(q) == Text(<<"[", q, "]">>)

\* json.loads returns a value for a cell: it raises on NULL and on a text
\* that is not JSON (here: the empty text and a text cut after its opening)
IsJson(cell) == ~cell.null /\ Len(cell.text) > 1

json_loads(cell) ==
    IF cell.text[1] = "["
    THEN cell.text[2]
    ELSE [title |-> cell.text[2], guild_id |-> cell.text[3]]

\* Python truth of a fetched TEXT value
Truthy(cell) == ~cell.null /\ cell.text # <<>>

NoQueueRow == [present |-> FALSE, queue_json |-> SqlNull]

save_queue(Q, g, q) == [Q EXCEPT ![g] = [present |-> TRUE, queue_json |-> json_dumps_list(q)]]

load_queue(Q, g) ==
    IF ~Q[g].present THEN <<>>
    ELSE IF IsJson(Q[g].queue_json) THEN json_loads(Q[g].queue_json) ELSE <<>>

delete_queue(Q, g) == [Q EXCEPT ![g] = NoQueueRow]

\* defaults that start a guild muted
DefaultSettingsMuted ==
    [volume_level |-> 0, is_looping |-> FALSE,
     last_played |-> None, previous_played |-> None]

DefaultSettings ==
    [volume_level |-> 100, is_looping |-> FALSE,
     last_played |-> None, previous_played |-> None]

NoSettingsRow ==
    [present |-> FALSE,
     row |-> [volume_level |-> NullNum, is_looping |-> NullNum,
              last_played |-> SqlNull, previous_played |-> SqlNull]]

\* the JSON text of a song, NULL for None
SongCell(song) == IF song # None THEN json_dumps(song) ELSE SqlNull

\* an INSERT that leaves an existing row as it is
save_guild_settings_insert_only(S, g, volume_level, is_looping, last_played, previous_played) ==
    IF S[g].present THEN S
    ELSE [S EXCEPT ![g] = [present |-> TRUE,
                           row |-> [volume_level |-> Num(volume_level),
                                    is_looping |-> Num(IF is_looping THEN 1 ELSE 0),
                                    last_played |-> SongCell(last_played),
                                    previous_played |-> SongCell(previous_played)]]]

\* INSERT ... ON CONFLICT(guild_id) DO UPDATE of float(volume_level),
\* int(bool(is_looping)) and the JSON texts
save_guild_settings(S, g, volume_level, is_looping, last_played, previous_played) ==
    [S EXCEPT ![g] = [present |-> TRUE,
                      row |-> [volume_level |-> Num(volume_level),
                               is_looping |-> Num(IF is_looping THEN 1 ELSE 0),
                               last_played |-> SongCell(last_played),
                               previous_played |-> SongCell(previous_played)]]]

\* `json.loads(x) if x else None` inside try / except: None on failure
ParsedSong(cell) == IF Truthy(cell) /\ IsJson(cell) THEN json_loads(cell) ELSE None

\* float(row["volume_level"]) is outside the try block: it raises on NULL
load_guild_settings_raises(S, g) == S[g].present /\ S[g].row.volume_level.null

\* the dict load_guild_settings returns when it does not raise
load_guild_settings(S, g) ==
    IF ~S[g].present THEN DefaultSettings
    ELSE [volume_level |-> S[g].row.volume_level.num,
          is_looping |-> S[g].row.is_looping.num # 0,
          last_played |-> ParsedSong(S[g].row.last_played),
          previous_played |-> ParsedSong(S[g].row.previous_played)]

\* ---------------------------------------------------------- queue helpers
\* add_song_to_queue that ignores play_now
add_song_to_queue_append_only(Q, g, songs, play_now) ==
    save_queue(Q, g, load_queue(Q, g) \o songs)

add_song_to_queue(Q, g, songs, play_now) ==
    LET q == load_queue(Q, g)
    IN  save_queue(Q, g, IF play_now THEN songs \o q ELSE q \o songs)

\* pop_next_song that forgets to save the shortened queue
pop_next_song_unsaved(Q, g) ==
    LET q == load_queue(Q, g)
    IN  [song |-> IF q = <<>> THEN None ELSE Head(q), store |-> Q]

\* pop_next_song returns the song and the store after it
pop_next_song(Q, g) ==
    LET q == load_queue(Q, g)
    IN  IF q = <<>>
        THEN [song |-> None, store |-> Q]
        ELSE [song |-> Head(q), store |-> save_queue(Q, g, Tail(q))]

\* a peek that always finds the queue empty
peek_queue_empty(Q, g) == <<>>

peek_queue(Q, g) == load_queue(Q, g)

\* an advance that never re-appends
LoopReappendNever(Q, g, song, looping) == Q

\* an advance that puts the popped song back at the head
LoopReappendFront(Q, g, song, looping) ==
    IF looping THEN save_queue(Q, g, <<song>> \o load_queue(Q, g)) ELSE Q

\* play_next_in_guild, "if looping is enabled, reappend the song at end"
LoopReappend(Q, g, song, looping) ==
    IF looping THEN save_queue(Q, g, Append(load_queue(Q, g), song)) ELSE Q

\* set_now_playing that leaves previous_played as it was
set_now_playing_keep_previous(S, g, song) ==
    LET settings == load_guild_settings(S, g)
    IN  save_guild_settings(S, g, settings.volume_level, settings.is_looping,
                            song, settings.previous_played)

\* set_now_playing: the settings table after the call
set_now_playing(S, g, song) ==
    LET settings == load_guild_settings(S, g)
        prev == settings.last_played
    IN  save_guild_settings(S, g, settings.volume_level, settings.is_looping, song, prev)

\* ------------------------------------------------------ voice client state
\* pl is the sequence of audio players active on a voice client
PlayerPlaying(pl) == \E i \in 1..Len(pl) : ~pl[i].paused

PlayerPaused(pl) == pl # <<>> /\ ~PlayerPlaying(pl)

is_playing(g) == PlayerPlaying(streams[g])

is_paused(g) == PlayerPaused(streams[g])

\* a captured voice client handle is live while it is the connected client
Task(song, looping) == [song |-> song, vcLive |-> TRUE, looping |-> looping]

Min(a, b) == IF a < b THEN a ELSE b

BagAdd(B, t) == B (+) SetToBag({t})

BagRemove(B, t) == B (-) SetToBag({t})

KillHandle(t) == [t EXCEPT !.vcLive = FALSE]

\* every handle captured by a suspended advance goes stale on disconnect
KillHandles(B) ==
    LET S == {KillHandle(t) : t \in BagToSet(B)}
    IN  [d \in S |-> CopiesIn(d, B) + CopiesIn([d EXCEPT !.vcLive = TRUE], B)]

NoTimers == [live |-> 0, dead |-> 0]

ArmTimer(T) == [T EXCEPT !.live = Min(MaxTimers, T.live + 1)]

\* a timer armed on a client that is already disconnecting
ArmDeadTimer(T) == [T EXCEPT !.dead = Min(MaxTimers, T.dead + 1)]

KillTimers(T) == [live |-> 0, dead |-> Min(MaxTimers, T.dead + T.live)]

InFlight(g) == afterPending[g] + scheduled[g] + BagCardinality(resolving[g])

\* vc.stop(): every active player ends and will call its after callback
VcStop(g) ==
    /\ streams' = [streams EXCEPT ![g] = <<>>]
    /\ afterPending' = [afterPending EXCEPT ![g] = @ + Len(streams[g])]

\* vc_for_guild: a voice client of the guild is registered with the bot; a
\* client stays registered until its disconnect() has closed the socket
vc_for_guild(g) == connected[g] \/ closing[g] # "no"

\* vc.disconnect() up to its await: stops the player and clears the connected
\* flag, so captured handles go stale; `awaiter` is "leave" when the leave
\* command continues after the await, "cleanup" otherwise
VcDisconnect(g, T, awaiter) ==
    /\ VcStop(g)
    /\ connected' = [connected EXCEPT ![g] = FALSE]
    /\ closing' = [closing EXCEPT ![g] = awaiter]
    /\ resolving' = [resolving EXCEPT ![g] = KillHandles(@)]
    /\ timers' = [timers EXCEPT ![g] = KillTimers(T)]

\* handlers that run their voice client calls inside `async with get_lock(...)`
LockTakenBy == {"play_next_in_guild"}

\* the record lastCmd keeps of a command
Logged(g, name) ==
    lastCmd' = [lastCmd EXCEPT ![g] = [cmd |-> name, locked |-> name \in LockTakenBy]]

NoCmd == [cmd |-> "none", locked |-> FALSE]

\* fnIn and fnOut while no function has been called on its own
NoCall == [op |-> "none"]

\* a lock that is still held while the stream is resolved
LockKeptAfterAdvance == TRUE

\* the lock is released when the `async with` block is left
LockAfterAdvance == FALSE

\* one lock for all guilds, held until the advance has resolved its stream
LockFreeGlobal(g) == \A k \in Guilds : ~voice_locks[k] /\ resolving[k] = EmptyBag

\* `async with get_lock(guild.id)` can be entered: the lock is the guild's own
LockFree(g) == ~voice_locks[g]

\* ------------------------------------------------------------------ Init
Init ==
    /\ queues = [g \in Guilds |-> NoQueueRow]
    /\ guild_settings = [g \in Guilds |-> NoSettingsRow]
    /\ now_playing = [g \in Guilds |-> None]
    /\ voice_locks = [g \in Guilds |-> FALSE]
    /\ connected = [g \in Guilds |-> FALSE]
    /\ streams = [g \in Guilds |-> <<>>]
    /\ afterPending = [g \in Guilds |-> 0]
    /\ scheduled = [g \in Guilds |-> 0]
    /\ resolving = [g \in Guilds |-> EmptyBag]
    /\ timers = [g \in Guilds |-> NoTimers]
    /\ playurlPending = [g \in Guilds |-> 0]
    /\ closing = [g \in Guilds |-> "no"]
    /\ enqSinceArm = [g \in Guilds |-> FALSE]
    /\ addLog = <<>>
    /\ advCount = 0
    /\ lastCmd = [g \in Guilds |-> NoCmd]
    /\ fnIn = NoCall
    /\ fnOut = NoCall
    /\ LyricsIdle

\* ------------------------------------------------- play_next_in_guild
\* From task start to the await inside make_discord_audio_source: the locked
\* block, the voice client lookup, and the return when there is none.
play_next_locked(g) ==
    /\ scheduled[g] > 0
    /\ LockFree(g)
    /\ scheduled' = [scheduled EXCEPT ![g] = @ - 1]
    /\ voice_locks' = [voice_locks EXCEPT ![g] = LockAfterAdvance]
    /\ LET settings == load_guild_settings(guild_settings, g)
           looping == settings.is_looping
           popped == pop_next_song(queues, g)
           song == popped.song
           Q1 == popped.store
       IN  IF song = None
           THEN /\ queues' = Q1
                /\ now_playing' = [now_playing EXCEPT ![g] = None]
                /\ guild_settings' = set_now_playing(guild_settings, g, None)
                /\ timers' = [timers EXCEPT ![g] =
                                 IF connected[g] THEN ArmTimer(@)
                                 ELSE IF vc_for_guild(g) THEN ArmDeadTimer(@) ELSE @]
                /\ enqSinceArm' = [enqSinceArm EXCEPT ![g] =
                                 IF connected[g] THEN FALSE ELSE @]
                /\ resolving' = resolving
           ELSE /\ queues' = LoopReappend(Q1, g, song, looping)
                /\ now_playing' = [now_playing EXCEPT ![g] = song]
                /\ guild_settings' = set_now_playing(guild_settings, g, song)
                /\ resolving' = [resolving EXCEPT ![g] =
                                 IF connected[g] THEN BagAdd(@, Task(song, looping))
                                 ELSE IF vc_for_guild(g)
                                      THEN BagAdd(@, KillHandle(Task(song, looping)))
                                      ELSE @]
                /\ UNCHANGED <<timers, enqSinceArm>>
    /\ UNCHANGED <<connected, streams, afterPending, playurlPending, closing,
                   addLog, lastCmd, fn, lyr>>

\* an advance outside the scenario specifications, which count advances
Advance(g) == play_next_locked(g) /\ UNCHANGED advCount

AdvanceCounted(g) == play_next_locked(g) /\ advCount' = advCount + 1

\* the volume make_discord_audio_source gives the new source
SourceVolume(S, song) ==
    IF song.guild_id # 0
    THEN load_guild_settings(S, song.guild_id).volume_level
    ELSE 100

\* vc.play(source) without stopping what plays
StartPlaybackNoStop(pl, source) == Append(pl, source)

\* vc.stop() when something plays, then vc.play(source): the players afterwards
StartPlayback(pl, source) ==
    Append(IF PlayerPlaying(pl) \/ PlayerPaused(pl) THEN <<>> ELSE pl, source)

\* make_discord_audio_source returned a source: stop what plays, start the new
\* stream; vc.play raises on a stale handle and the advance is rescheduled.
ResolveOk(g, t) ==
    /\ BagIn(t, resolving[g])
    /\ resolving' = [resolving EXCEPT ![g] = BagRemove(@, t)]
    /\ IF t.vcLive
       THEN /\ streams' = [streams EXCEPT ![g] =
                   StartPlayback(@, [song |-> t.song, paused |-> FALSE,
                                     volume |-> SourceVolume(guild_settings, t.song)])]
            /\ afterPending' = [afterPending EXCEPT ![g] =
                   @ + Len(streams[g]) + 1 - Len(streams'[g])]
            /\ scheduled' = scheduled
       ELSE /\ scheduled' = [scheduled EXCEPT ![g] = @ + 1]
            /\ UNCHANGED <<streams, afterPending>>
    /\ UNCHANGED <<queues, guild_settings, now_playing, voice_locks, connected,
                   timers, playurlPending, enqSinceArm, addLog, advCount, closing, lastCmd, fn, lyr>>

\* make_discord_audio_source raised: "attempt next"
ResolveFail(g, t) ==
    /\ BagIn(t, resolving[g])
    /\ resolving' = [resolving EXCEPT ![g] = BagRemove(@, t)]
    /\ scheduled' = [scheduled EXCEPT ![g] = @ + 1]
    /\ UNCHANGED <<queues, guild_settings, now_playing, voice_locks, connected,
                   streams, afterPending, timers, playurlPending, enqSinceArm, addLog, advCount, closing, lastCmd, fn, lyr>>

\* the stream reaches its end; a paused player reads no data
StreamEnds(g) ==
    /\ is_playing(g)
    /\ VcStop(g)
    /\ UNCHANGED <<queues, guild_settings, now_playing, voice_locks, connected,
                   scheduled, resolving, timers, playurlPending, enqSinceArm, addLog, advCount, closing, lastCmd, fn, lyr>>

\* _after_play: the player thread schedules the next advance
after_play(g) ==
    /\ afterPending[g] > 0
    /\ afterPending' = [afterPending EXCEPT ![g] = @ - 1]
    /\ scheduled' = [scheduled EXCEPT ![g] = @ + 1]
    /\ UNCHANGED <<queues, guild_settings, now_playing, voice_locks, connected,
                   streams, resolving, timers, playurlPending, enqSinceArm, addLog, advCount, closing, lastCmd, fn, lyr>>

\* idle_disconnect wakes up; live says whether its vc is still the client
idle_disconnect(g, live) ==
    /\ IF live THEN timers[g].live > 0 ELSE timers[g].dead > 0
    /\ LET T == IF live THEN [timers[g] EXCEPT !.live = @ - 1]
                        ELSE [timers[g] EXCEPT !.dead = @ - 1]
       IN  IF live /\ peek_queue(queues, g) = <<>>
           THEN VcDisconnect(g, T, "cleanup")
           ELSE /\ timers' = [timers EXCEPT ![g] = T]
                /\ UNCHANGED <<streams, afterPending, connected, resolving, closing>>
    /\ UNCHANGED <<queues, guild_settings, now_playing, voice_locks, scheduled,
                   playurlPending, enqSinceArm, addLog, advCount, lastCmd, fn, lyr>>

\* ---------------------------------------------------------------- commands
\* playurl_cmd up to the await of ytdl_extract_info: ensure_voice connects
\* when the guild has no connected voice client
playurl_ensure_voice(g) ==
    /\ playurlPending[g] < MaxPending
    /\ closing[g] = "no"
    /\ playurlPending' = [playurlPending EXCEPT ![g] = @ + 1]
    /\ connected' = [connected EXCEPT ![g] = TRUE]
    /\ UNCHANGED <<queues, guild_settings, now_playing, voice_locks, streams,
                   afterPending, scheduled, resolving, timers, enqSinceArm,
                   addLog, advCount, closing, fn, lyr>>
    /\ Logged(g, "playurl")

\* "if idle, start playback": the number of advances a play command creates
StartIfIdle(g) == IF vc_for_guild(g) /\ ~(is_playing(g) \/ is_paused(g)) THEN 1 ELSE 0

\* playurl_cmd after ytdl_extract_info returned an info dict
playurl_enqueue(g, title) ==
    /\ playurlPending[g] > 0
    /\ Len(load_queue(queues, g)) < MaxQueue
    /\ InFlight(g) < MaxAdv
    /\ playurlPending' = [playurlPending EXCEPT ![g] = @ - 1]
    /\ queues' = add_song_to_queue(queues, g, <<build_song_dict(title, 0)>>, FALSE)
    /\ scheduled' = [scheduled EXCEPT ![g] = @ + StartIfIdle(g)]
    /\ enqSinceArm' = [enqSinceArm EXCEPT ![g] = TRUE]
    /\ UNCHANGED <<guild_settings, now_playing, voice_locks, connected, streams,
                   afterPending, resolving, timers, addLog, advCount, closing, fn, lyr>>
    /\ Logged(g, "playurl")

\* playurl_cmd when ytdl_extract_info returned None
playurl_unresolved(g) ==
    /\ playurlPending[g] > 0
    /\ playurlPending' = [playurlPending EXCEPT ![g] = @ - 1]
    /\ UNCHANGED <<queues, guild_settings, now_playing, voice_locks, connected,
                   streams, afterPending, scheduled, resolving, timers, enqSinceArm,
                   addLog, advCount, closing, lastCmd, fn, lyr>>

\* a skip that stops the player and also starts an advance itself
skip_cmd_and_advance(g) ==
    /\ connected[g]
    /\ is_playing(g) \/ is_paused(g)
    /\ VcStop(g)
    /\ scheduled' = [scheduled EXCEPT ![g] = @ + 1]
    /\ UNCHANGED <<queues, guild_settings, now_playing, voice_locks, connected,
                   resolving, timers, playurlPending, enqSinceArm, addLog, advCount, closing, fn, lyr>>
    /\ Logged(g, "skip")

\* skip_cmd and NowPlayingView.skip when something plays or is paused
skip_cmd(g) ==
    /\ connected[g]
    /\ is_playing(g) \/ is_paused(g)
    /\ VcStop(g)
    /\ UNCHANGED <<queues, guild_settings, now_playing, voice_locks, connected,
                   scheduled, resolving, timers, playurlPending, enqSinceArm, addLog, advCount, closing, fn, lyr>>
    /\ Logged(g, "skip")

\* a stop that leaves the queue row in place
stop_cmd_keep_queue(g) ==
    /\ queues' = queues
    /\ now_playing' = [now_playing EXCEPT ![g] = None]
    /\ guild_settings' = set_now_playing(guild_settings, g, None)
    /\ IF connected[g]
       THEN VcDisconnect(g, timers[g], "cleanup")
       ELSE UNCHANGED <<streams, afterPending, connected, resolving, timers, closing>>
    /\ UNCHANGED <<voice_locks, scheduled, playurlPending, enqSinceArm, addLog, advCount, fn, lyr>>
    /\ Logged(g, "stop")

\* stop_cmd and NowPlayingView.stop
stop_cmd(g) ==
    /\ queues' = delete_queue(queues, g)
    /\ now_playing' = [now_playing EXCEPT ![g] = None]
    /\ guild_settings' = set_now_playing(guild_settings, g, None)
    /\ IF connected[g]
       THEN VcDisconnect(g, timers[g], "cleanup")
       ELSE UNCHANGED <<streams, afterPending, connected, resolving, timers, closing>>
    /\ UNCHANGED <<voice_locks, scheduled, playurlPending, enqSinceArm, addLog, advCount, fn, lyr>>
    /\ Logged(g, "stop")

\* vc.disconnect() of stop_cmd or idle_disconnect has closed the socket: the
\* client is unregistered; nothing of the model follows in the caller
disconnect_done(g) ==
    /\ closing[g] = "cleanup"
    /\ closing' = [closing EXCEPT ![g] = "no"]
    /\ UNCHANGED <<queues, guild_settings, now_playing, voice_locks, connected,
                   streams, afterPending, scheduled, resolving, timers,
                   playurlPending, enqSinceArm, addLog, advCount, lastCmd, fn, lyr>>

\* leave, from the voice client lookup to the await inside vc.disconnect();
\* on a client that is already disconnecting the call returns at once and
\* the queue is deleted in the same step
leave(g) ==
    /\ vc_for_guild(g)
    /\ IF connected[g]
       THEN /\ VcDisconnect(g, timers[g], "leave")
            /\ UNCHANGED queues
       ELSE /\ queues' = delete_queue(queues, g)
            /\ UNCHANGED <<streams, afterPending, connected, resolving, timers, closing>>
    /\ UNCHANGED <<guild_settings, now_playing, voice_locks, scheduled,
                   playurlPending, enqSinceArm, addLog, advCount, fn, lyr>>
    /\ Logged(g, "leave")

\* leave after vc.disconnect() returned: the client is unregistered and the
\* queue row is deleted
leave_delete_queue(g) ==
    /\ closing[g] = "leave"
    /\ closing' = [closing EXCEPT ![g] = "no"]
    /\ queues' = delete_queue(queues, g)
    /\ UNCHANGED <<guild_settings, now_playing, voice_locks, connected, streams,
                   afterPending, scheduled, resolving, timers, playurlPending,
                   enqSinceArm, addLog, advCount, lastCmd, fn, lyr>>

\* a loop toggle that writes back the volume of a copy read before any
\* volume was set
loop_cmd_stale(g) ==
    /\ LET settings == load_guild_settings(guild_settings, g)
       IN  guild_settings' = save_guild_settings(guild_settings, g,
               DefaultSettings.volume_level, ~settings.is_looping,
               settings.last_played, settings.previous_played)
    /\ UNCHANGED <<queues, now_playing, voice_locks, connected, streams,
                   afterPending, scheduled, resolving, timers, playurlPending,
                   enqSinceArm, addLog, advCount, closing, lastCmd, fn, lyr>>

\* loop_cmd and NowPlayingView.loop
loop_cmd(g) ==
    /\ LET settings == load_guild_settings(guild_settings, g)
       IN  guild_settings' = save_guild_settings(guild_settings, g,
               settings.volume_level, ~settings.is_looping,
               settings.last_played, settings.previous_played)
    /\ UNCHANGED <<queues, now_playing, voice_locks, connected, streams,
                   afterPending, scheduled, resolving, timers, playurlPending,
                   enqSinceArm, addLog, advCount, closing, lastCmd, fn, lyr>>

\* q.pop(position): the item after the one asked for is removed
RemoveAtZeroBased(q, i) == SubSeq(q, 1, i) \o SubSeq(q, i + 2, Len(q))

\* q.pop(position - 1): the queue without its item at 1-based position i
RemoveAt(q, i) == SubSeq(q, 1, i - 1) \o SubSeq(q, i + 1, Len(q))

\* remove_cmd after the deferred response: "Invalid position." for a
\* position outside 1..len(q), else the item is popped and the queue saved;
\* fnOut records the reply
remove_cmd(g, position) ==
    /\ LET q == peek_queue(queues, g)
       IN  IF position < 1 \/ position > Len(q)
           THEN /\ fnOut' = [op |-> "remove_cmd", guild |-> g, reply |-> "invalid"]
                /\ UNCHANGED <<queues, lastCmd>>
           ELSE /\ queues' = save_queue(queues, g, RemoveAt(q, position))
                /\ fnOut' = [op |-> "remove_cmd", guild |-> g, reply |-> "removed"]
                /\ Logged(g, "remove")
    /\ UNCHANGED <<guild_settings, now_playing, voice_locks, connected, streams,
                   afterPending, scheduled, resolving, timers, playurlPending,
                   enqSinceArm, addLog, advCount, closing, fnIn, lyr>>

\* a clear that also stops the player
clear_cmd_and_stop(g) ==
    /\ queues' = save_queue(queues, g, <<>>)
    /\ VcStop(g)
    /\ UNCHANGED <<guild_settings, now_playing, voice_locks, connected,
                   scheduled, resolving, timers, playurlPending,
                   enqSinceArm, addLog, advCount, closing, fn, lyr>>
    /\ Logged(g, "clear")

\* clear_cmd after the deferred response: save_queue(guild, [])
clear_cmd(g) ==
    /\ queues' = save_queue(queues, g, <<>>)
    /\ UNCHANGED <<guild_settings, now_playing, voice_locks, connected, streams,
                   afterPending, scheduled, resolving, timers, playurlPending,
                   enqSinceArm, addLog, advCount, closing, fn, lyr>>
    /\ Logged(g, "clear")

\* a pause that stops the player
pause_resume_as_stop(g) ==
    /\ connected[g]
    /\ streams[g] # <<>>
    /\ VcStop(g)
    /\ UNCHANGED <<queues, guild_settings, now_playing, voice_locks, connected,
                   scheduled, resolving, timers, playurlPending,
                   enqSinceArm, addLog, advCount, closing, fn, lyr>>
    /\ Logged(g, "pause_resume")

\* NowPlayingView.pause_resume
pause_resume(g) ==
    /\ connected[g]
    /\ streams[g] # <<>>
    /\ streams' = [streams EXCEPT ![g] =
           [i \in 1..Len(@) |-> [@[i] EXCEPT !.paused = is_playing(g)]]]
    /\ UNCHANGED <<queues, guild_settings, now_playing, voice_locks, connected,
                   afterPending, scheduled, resolving, timers, playurlPending,
                   enqSinceArm, addLog, advCount, closing, fn, lyr>>
    /\ Logged(g, "pause_resume")

\* ------------------------------------------------------------------ Spec
Next ==
    \/ \E g \in Active : playurl_ensure_voice(g)
    \/ \E g \in Active : \E title \in Titles : playurl_enqueue(g, title)
    \/ \E g \in Active : playurl_unresolved(g)
    \/ \E g \in Active : Advance(g)
    \/ \E g \in Active : \E t \in BagToSet(resolving[g]) : ResolveOk(g, t)
    \/ \E g \in Active : \E t \in BagToSet(resolving[g]) : ResolveFail(g, t)
    \/ \E g \in Active : StreamEnds(g)
    \/ \E g \in Active : after_play(g)
    \/ \E g \in Active : \E live \in BOOLEAN : idle_disconnect(g, live)
    \/ \E g \in Active : skip_cmd(g)
    \/ \E g \in Active : stop_cmd(g)
    \/ \E g \in Active : disconnect_done(g)
    \/ \E g \in Active : leave(g)
    \/ \E g \in Active : leave_delete_queue(g)
    \/ \E g \in Active : loop_cmd(g)
    \/ \E g \in Active : pause_resume(g)
    \/ \E g \in Active : clear_cmd(g)

Spec == Init /\ [][Next]_vars

\* ------------------------------------------------ playback of a queue
\* Play commands, advances and stream ends of one guild, with the commands
\* that act on what plays or waits: /loop, pause and resume, and /clear.
\* Idle timers are started and never fire.
InitPlay == Init

NextPlay ==
    \/ \E g \in Active : playurl_ensure_voice(g)
    \/ \E g \in Active : \E title \in Titles : playurl_enqueue(g, title)
    \/ \E g \in Active : Advance(g)
    \/ \E g \in Active : \E t \in BagToSet(resolving[g]) : ResolveOk(g, t)
    \/ \E g \in Active : StreamEnds(g)
    \/ \E g \in Active : after_play(g)
    \/ \E g \in Active : loop_cmd(g)
    \/ \E g \in Active : pause_resume(g)
    \/ \E g \in Active : clear_cmd(g)

SpecPlay == InitPlay /\ [][NextPlay]_vars

\* ------------------------------------------- play requests and advances
\* Play commands, advances, resolver returns, stream ends and completion
\* callbacks of one guild, and the /skip command.
InitAdvances == Init

NextAdvances ==
    \/ \E g \in Active : playurl_ensure_voice(g)
    \/ \E g \in Active : \E title \in Titles : playurl_enqueue(g, title)
    \/ \E g \in Active : Advance(g)
    \/ \E g \in Active : \E t \in BagToSet(resolving[g]) : ResolveOk(g, t)
    \/ \E g \in Active : StreamEnds(g)
    \/ \E g \in Active : after_play(g)
    \/ \E g \in Active : skip_cmd(g)

SpecAdvances == InitAdvances /\ [][NextAdvances]_vars

\* ------------------------------------------------ the idle timer
\* Play commands, advances and stream ends of one guild, with the idle
\* timers firing and the commands that end a stream or the connection:
\* /skip and /stop.
InitIdle == Init

NextIdle ==
    \/ \E g \in Active : playurl_ensure_voice(g)
    \/ \E g \in Active : \E title \in Titles : playurl_enqueue(g, title)
    \/ \E g \in Active : Advance(g)
    \/ \E g \in Active : \E t \in BagToSet(resolving[g]) : ResolveOk(g, t)
    \/ \E g \in Active : StreamEnds(g)
    \/ \E g \in Active : after_play(g)
    \/ \E g \in Active : \E live \in BOOLEAN : idle_disconnect(g, live)
    \/ \E g \in Active : skip_cmd(g)
    \/ \E g \in Active : stop_cmd(g)
    \/ \E g \in Active : disconnect_done(g)

SpecIdle == InitIdle /\ [][NextIdle]_vars

\* ----------------------------------------------------- two guilds at once
\* Play and skip commands, advances and resolver returns of both guilds
\* interleave.
InitGuilds == Init

NextGuilds ==
    \/ \E g \in Guilds : playurl_ensure_voice(g)
    \/ \E g \in Guilds : playurl_enqueue(g, "A")
    \/ \E g \in Guilds : Advance(g)
    \/ \E g \in Guilds : \E t \in BagToSet(resolving[g]) : ResolveOk(g, t)
    \/ \E g \in Guilds : skip_cmd(g)

SpecGuilds == InitGuilds /\ [][NextGuilds]_vars

\* ------------------------------------------- add_song_to_queue on its own
\* Calls of add_song_to_queue on a guild whose queue starts empty; addLog
\* records the calls.
FifoSongs == {build_song_dict(t, 0) : t \in Titles}

Batches == {<<a>> : a \in FifoSongs} \cup {<<a, b>> : a \in FifoSongs, b \in FifoSongs}

InitFifo == Init

AddCall(g, songs, play_now) ==
    /\ Len(addLog) < MaxLog
    /\ queues' = add_song_to_queue(queues, g, songs, play_now)
    /\ addLog' = Append(addLog, [songs |-> songs, play_now |-> play_now])
    /\ UNCHANGED <<guild_settings, now_playing, voice_locks, connected, streams,
                   afterPending, scheduled, resolving, timers, playurlPending,
                   enqSinceArm, advCount, closing, lastCmd, fn, lyr>>

NextFifo ==
    \E g \in Active : \E songs \in Batches : \E play_now \in BOOLEAN :
        AddCall(g, songs, play_now)

SpecFifo == InitFifo /\ [][NextFifo]_vars

\* --------------------------------------------- enqueue [A, B], then advance
\* A play command has put [A, B] on the empty queue of an idle, connected
\* guild and created the first advance; the resolver succeeds.
InitScenario ==
    \E g \in Active : \E a \in Songs, b \in Songs :
        /\ queues = add_song_to_queue([h \in Guilds |-> NoQueueRow], g, <<a, b>>, FALSE)
        /\ addLog = <<[songs |-> <<a, b>>, play_now |-> FALSE]>>
        /\ guild_settings = [h \in Guilds |-> NoSettingsRow]
        /\ now_playing = [h \in Guilds |-> None]
        /\ voice_locks = [h \in Guilds |-> FALSE]
        /\ connected = [h \in Guilds |-> h = g]
        /\ streams = [h \in Guilds |-> <<>>]
        /\ afterPending = [h \in Guilds |-> 0]
        /\ scheduled = [h \in Guilds |-> IF h = g THEN 1 ELSE 0]
        /\ resolving = [h \in Guilds |-> EmptyBag]
        /\ timers = [h \in Guilds |-> NoTimers]
        /\ playurlPending = [h \in Guilds |-> 0]
        /\ closing = [h \in Guilds |-> "no"]
        /\ lastCmd = [h \in Guilds |-> NoCmd]
        /\ fnIn = NoCall
        /\ fnOut = NoCall
        /\ LyricsIdle
        /\ enqSinceArm = [h \in Guilds |-> h = g]
        /\ advCount = 0

NextScenario ==
    \/ \E g \in Active : AdvanceCounted(g)
    \/ \E g \in Active : \E t \in BagToSet(resolving[g]) : ResolveOk(g, t)
    \/ \E g \in Active : StreamEnds(g)
    \/ \E g \in Active : after_play(g)

SpecScenario == InitScenario /\ [][NextScenario]_vars

\* ------------------------------------------------- skip races completion
\* A track plays on a connected guild with a non-empty queue and no advance
\* pending; a skip command and the natural end of the track are both due.
\* addLog holds the queue as it was enqueued.
InitRace ==
    \E g \in Active : \E s \in Songs : \E n \in 1..MaxQueue :
    \E q \in [1..n -> Songs] : \E looping \in BOOLEAN :
        /\ queues = save_queue([h \in Guilds |-> NoQueueRow], g, q)
        /\ addLog = <<[songs |-> q, play_now |-> FALSE]>>
        /\ guild_settings = save_guild_settings([h \in Guilds |-> NoSettingsRow],
                                                g, 100, looping, s, None)
        /\ now_playing = [h \in Guilds |-> IF h = g THEN s ELSE None]
        /\ voice_locks = [h \in Guilds |-> FALSE]
        /\ connected = [h \in Guilds |-> h = g]
        /\ streams = [h \in Guilds |->
                        IF h = g THEN <<[song |-> s, paused |-> FALSE, volume |-> 100]>>
                                 ELSE <<>>]
        /\ afterPending = [h \in Guilds |-> 0]
        /\ scheduled = [h \in Guilds |-> 0]
        /\ resolving = [h \in Guilds |-> EmptyBag]
        /\ timers = [h \in Guilds |-> NoTimers]
        /\ playurlPending = [h \in Guilds |-> 0]
        /\ closing = [h \in Guilds |-> "no"]
        /\ lastCmd = [h \in Guilds |-> NoCmd]
        /\ fnIn = NoCall
        /\ fnOut = NoCall
        /\ LyricsIdle
        /\ enqSinceArm = [h \in Guilds |-> h = g]
        /\ advCount = 0

NextRace ==
    \/ \E g \in Active : skip_cmd(g)
    \/ \E g \in Active : StreamEnds(g)
    \/ \E g \in Active : after_play(g)
    \/ \E g \in Active : AdvanceCounted(g)

SpecRace == InitRace /\ [][NextRace]_vars

\* ------------------------------------------- a resolver that always fails
\* A connected guild with any queue and any loop setting, one advance
\* created; every call of make_discord_audio_source raises.
InitFail ==
    \E g \in Active : \E n \in 0..MaxQueue : \E q \in [1..n -> Songs] :
    \E looping \in BOOLEAN :
        /\ queues = IF n = 0 THEN [h \in Guilds |-> NoQueueRow]
                    ELSE save_queue([h \in Guilds |-> NoQueueRow], g, q)
        /\ addLog = <<>>
        /\ guild_settings = IF looping
              THEN save_guild_settings([h \in Guilds |-> NoSettingsRow],
                                       g, 100, TRUE, None, None)
              ELSE [h \in Guilds |-> NoSettingsRow]
        /\ now_playing = [h \in Guilds |-> None]
        /\ voice_locks = [h \in Guilds |-> FALSE]
        /\ connected = [h \in Guilds |-> h = g]
        /\ streams = [h \in Guilds |-> <<>>]
        /\ afterPending = [h \in Guilds |-> 0]
        /\ scheduled = [h \in Guilds |-> IF h = g THEN 1 ELSE 0]
        /\ resolving = [h \in Guilds |-> EmptyBag]
        /\ timers = [h \in Guilds |-> NoTimers]
        /\ playurlPending = [h \in Guilds |-> 0]
        /\ closing = [h \in Guilds |-> "no"]
        /\ lastCmd = [h \in Guilds |-> NoCmd]
        /\ fnIn = NoCall
        /\ fnOut = NoCall
        /\ LyricsIdle
        /\ enqSinceArm = [h \in Guilds |-> n > 0]
        /\ advCount = 0

NextFail ==
    \/ \E g \in Active : Advance(g)
    \/ \E g \in Active : \E t \in BagToSet(resolving[g]) : ResolveFail(g, t)

\* the event loop runs every task it holds, and a resolver call returns
SpecFail == InitFail /\ [][NextFail]_vars /\ WF_vars(NextFail)

\* ------------------------------------------------------- volume commands
\* /volume and the -5% / +5% buttons of the now-playing message, on a guild
\* that is idle or plays a stream; fnIn and fnOut record the last of them.
VolumeStep == 5

MaxVolume == 200

Levels == {0 - 1, 0, 72, 200, 201}

Max(a, b) == IF a > b THEN a ELSE b

StoredVolume(g) == load_guild_settings(guild_settings, g).volume_level

\* `vc.source.volume = volume` when the voice client has a source
SetSourceVolume(pl, volume) == [i \in 1..Len(pl) |-> [pl[i] EXCEPT !.volume = volume]]

\* save the volume with the other settings as loaded, apply it to the source
SetVolume(g, volume) ==
    /\ LET settings == load_guild_settings(guild_settings, g)
       IN  guild_settings' = save_guild_settings(guild_settings, g, volume,
               settings.is_looping, settings.last_played, settings.previous_played)
    /\ streams' = [streams EXCEPT ![g] = SetSourceVolume(@, volume)]

volume_cmd(g, level) ==
    /\ fnIn' = [op |-> "volume_cmd", guild |-> g, level |-> level,
                before |-> StoredVolume(g)]
    /\ IF level < 0 \/ level > MaxVolume
       THEN /\ fnOut' = [op |-> "volume_cmd", guild |-> g, reply |-> "rejected"]
            /\ UNCHANGED <<guild_settings, streams>>
       ELSE /\ fnOut' = [op |-> "volume_cmd", guild |-> g, reply |-> "set"]
            /\ SetVolume(g, level)
    /\ UNCHANGED <<queues, now_playing, voice_locks, connected, afterPending,
                   scheduled, resolving, timers, playurlPending, closing, hist, lyr>>

vol_down(g) ==
    /\ fnIn' = [op |-> "vol_down", guild |-> g, level |-> 0, before |-> StoredVolume(g)]
    /\ fnOut' = [op |-> "vol_down", guild |-> g, reply |-> "set"]
    /\ SetVolume(g, Max(0, StoredVolume(g) - VolumeStep))
    /\ UNCHANGED <<queues, now_playing, voice_locks, connected, afterPending,
                   scheduled, resolving, timers, playurlPending, closing, hist, lyr>>

\* a +5% that does not stop at 200%
vol_up_unclamped(g) ==
    /\ fnIn' = [op |-> "vol_up", guild |-> g, level |-> 0, before |-> StoredVolume(g)]
    /\ fnOut' = [op |-> "vol_up", guild |-> g, reply |-> "set"]
    /\ SetVolume(g, StoredVolume(g) + VolumeStep)
    /\ UNCHANGED <<queues, now_playing, voice_locks, connected, afterPending,
                   scheduled, resolving, timers, playurlPending, closing, hist, lyr>>

vol_up(g) ==
    /\ fnIn' = [op |-> "vol_up", guild |-> g, level |-> 0, before |-> StoredVolume(g)]
    /\ fnOut' = [op |-> "vol_up", guild |-> g, reply |-> "set"]
    /\ SetVolume(g, Min(MaxVolume, StoredVolume(g) + VolumeStep))
    /\ UNCHANGED <<queues, now_playing, voice_locks, connected, afterPending,
                   scheduled, resolving, timers, playurlPending, closing, hist, lyr>>

InitVolume ==
    \E g \in Active : \E plays \in BOOLEAN : \E s \in Songs :
        /\ queues = [h \in Guilds |-> NoQueueRow]
        /\ guild_settings = IF plays
              THEN save_guild_settings([h \in Guilds |-> NoSettingsRow],
                                       g, 100, FALSE, s, None)
              ELSE [h \in Guilds |-> NoSettingsRow]
        /\ now_playing = [h \in Guilds |-> IF h = g /\ plays THEN s ELSE None]
        /\ voice_locks = [h \in Guilds |-> FALSE]
        /\ connected = [h \in Guilds |-> h = g /\ plays]
        /\ streams = [h \in Guilds |->
                        IF h = g /\ plays
                        THEN <<[song |-> s, paused |-> FALSE, volume |-> 100]>>
                        ELSE <<>>]
        /\ afterPending = [h \in Guilds |-> 0]
        /\ scheduled = [h \in Guilds |-> 0]
        /\ resolving = [h \in Guilds |-> EmptyBag]
        /\ timers = [h \in Guilds |-> NoTimers]
        /\ playurlPending = [h \in Guilds |-> 0]
        /\ closing = [h \in Guilds |-> "no"]
        /\ lastCmd = [h \in Guilds |-> NoCmd]
        /\ fnIn = NoCall
        /\ fnOut = NoCall
        /\ LyricsIdle
        /\ enqSinceArm = [h \in Guilds |-> FALSE]
        /\ addLog = <<>>
        /\ advCount = 0

NextVolume ==
    \/ \E g \in Active : \E level \in Levels : volume_cmd(g, level)
    \/ \E g \in Active : vol_down(g)
    \/ \E g \in Active : vol_up(g)

SpecVolume == InitVolume /\ [][NextVolume]_vars

\* ------------------------------------------- queue and settings writers
\* The handlers that load, change and save a guild's queue or settings row,
\* interleaved with playback: play commands, advances, /remove, /loop and
\* /volume.
EditLevels == {72}

InitEdits == Init

NextEdits ==
    \/ \E g \in Active : playurl_ensure_voice(g)
    \/ \E g \in Active : \E title \in Titles : playurl_enqueue(g, title)
    \/ \E g \in Active : Advance(g)
    \/ \E g \in Active : \E t \in BagToSet(resolving[g]) : ResolveOk(g, t)
    \/ \E g \in Active : StreamEnds(g)
    \/ \E g \in Active : after_play(g)
    \/ \E g \in Active : \E position \in 1..MaxQueue : remove_cmd(g, position)
    \/ \E g \in Active : loop_cmd(g)
    \/ \E g \in Active : \E level \in EditLevels : volume_cmd(g, level)

SpecEdits == InitEdits /\ [][NextEdits]_vars

\* ------------------------------------------------------ /remove on its own
\* /remove commands with positions inside and outside the queue, on a guild
\* whose stored queue is any list of songs.
Positions == {0 - 1, 0} \cup 1..(MaxQueue + 1)

InitRemove ==
    \E g \in Active : \E n \in 0..MaxQueue : \E q \in [1..n -> Songs] :
        /\ queues = save_queue([h \in Guilds |-> NoQueueRow], g, q)
        /\ guild_settings = [h \in Guilds |-> NoSettingsRow]
        /\ now_playing = [h \in Guilds |-> None]
        /\ voice_locks = [h \in Guilds |-> FALSE]
        /\ connected = [h \in Guilds |-> FALSE]
        /\ streams = [h \in Guilds |-> <<>>]
        /\ afterPending = [h \in Guilds |-> 0]
        /\ scheduled = [h \in Guilds |-> 0]
        /\ resolving = [h \in Guilds |-> EmptyBag]
        /\ timers = [h \in Guilds |-> NoTimers]
        /\ playurlPending = [h \in Guilds |-> 0]
        /\ closing = [h \in Guilds |-> "no"]
        /\ lastCmd = [h \in Guilds |-> NoCmd]
        /\ fnIn = NoCall
        /\ fnOut = NoCall
        /\ LyricsIdle
        /\ enqSinceArm = [h \in Guilds |-> n > 0]
        /\ addLog = <<>>
        /\ advCount = 0

NextRemove == \E g \in Active : \E position \in Positions : remove_cmd(g, position)

SpecRemove == InitRemove /\ [][NextRemove]_vars

\* ------------------------------------------------- database.py on its own
\* The tables hold, for one guild, any row the file can hold: none, one the
\* program wrote, or one with a NULL, empty or truncated value.  The calls
\* of save_guild_settings, load_guild_settings and load_queue are recorded.
Volumes == {0, 70, 100, 200}

MaybeSongs == FifoSongs \cup {None}

TextCells == {SqlNull, Text(<<>>), Text(<<"{">>)} \cup {json_dumps(x) : x \in FifoSongs}

QueueCells ==
    {SqlNull, Text(<<>>), Text(<<"[">>)}
        \cup {json_dumps_list(q) : q \in {<<>>} \cup {<<x>> : x \in FifoSongs}}

QueueRows == {NoQueueRow} \cup {[present |-> TRUE, queue_json |-> c] : c \in QueueCells}

SettingsRows ==
    {NoSettingsRow} \cup
    {[present |-> TRUE,
      row |-> [volume_level |-> v, is_looping |-> l, last_played |-> a, previous_played |-> b]] :
        v \in {Num(70), Num(100), NullNum}, l \in {Num(0), Num(1)},
        a \in TextCells, b \in TextCells}

InitStore ==
    \E g \in Active : \E qr \in QueueRows : \E sr \in SettingsRows :
        /\ queues = [h \in Guilds |-> IF h = g THEN qr ELSE NoQueueRow]
        /\ guild_settings = [h \in Guilds |-> IF h = g THEN sr ELSE NoSettingsRow]
        /\ now_playing = [h \in Guilds |-> None]
        /\ voice_locks = [h \in Guilds |-> FALSE]
        /\ connected = [h \in Guilds |-> FALSE]
        /\ streams = [h \in Guilds |-> <<>>]
        /\ afterPending = [h \in Guilds |-> 0]
        /\ scheduled = [h \in Guilds |-> 0]
        /\ resolving = [h \in Guilds |-> EmptyBag]
        /\ timers = [h \in Guilds |-> NoTimers]
        /\ playurlPending = [h \in Guilds |-> 0]
        /\ closing = [h \in Guilds |-> "no"]
        /\ lastCmd = [h \in Guilds |-> NoCmd]
        /\ fnIn = NoCall
        /\ fnOut = NoCall
        /\ LyricsIdle
        /\ enqSinceArm = [h \in Guilds |-> FALSE]
        /\ addLog = <<>>
        /\ advCount = 0

sched == <<now_playing, voice_locks, connected, streams, afterPending, scheduled,
           resolving, timers, playurlPending, closing, hist>>

SaveSettingsCall(g, volume_level, is_looping, last_played, previous_played) ==
    /\ guild_settings' = save_guild_settings(guild_settings, g, volume_level,
                                             is_looping, last_played, previous_played)
    /\ fnIn' = [op |-> "save_guild_settings", guild |-> g,
                value |-> [volume_level |-> volume_level, is_looping |-> is_looping,
                           last_played |-> last_played,
                           previous_played |-> previous_played]]
    /\ fnOut' = NoCall
    /\ UNCHANGED <<queues, sched, lyr>>

LoadSettingsCall(g) ==
    /\ fnOut' = [op |-> "load_guild_settings", guild |-> g,
                 raised |-> load_guild_settings_raises(guild_settings, g),
                 value |-> load_guild_settings(guild_settings, g)]
    /\ UNCHANGED <<queues, guild_settings, fnIn, sched, lyr>>

LoadQueueCall(g) ==
    /\ fnOut' = [op |-> "load_queue", guild |-> g, raised |-> FALSE,
                 value |-> load_queue(queues, g)]
    /\ UNCHANGED <<queues, guild_settings, fnIn, sched, lyr>>

NextStore ==
    \/ \E g \in Active : \E v \in Volumes : \E l \in BOOLEAN :
       \E a \in MaybeSongs : \E b \in MaybeSongs : SaveSettingsCall(g, v, l, a, b)
    \/ \E g \in Active : LoadSettingsCall(g)
    \/ \E g \in Active : LoadQueueCall(g)

SpecStore == InitStore /\ [][NextStore]_vars

\* ---------------------------------------------------------------- lyrics.py
\* Strings are sequences of characters; Char(s, i) is the i-th as a string.
Char(s, i) == SubSeq(s, i, i)

UpperLetters == "ABCDEFGHIJKLMNOPQRSTUVWXYZ"

LowerLetters == "abcdefghijklmnopqrstuvwxyz"

LowerChar(c) ==
    IF \E i \in 1..Len(UpperLetters) : Char(UpperLetters, i) = c
    THEN Char(LowerLetters, CHOOSE i \in 1..Len(UpperLetters) : Char(UpperLetters, i) = c)
    ELSE c

RECURSIVE LowerStr(_)
LowerStr(s) ==
    IF s = "" THEN "" ELSE LowerChar(Char(s, 1)) \o LowerStr(SubSeq(s, 2, Len(s)))

\* the lower-case literal p matches s at position i, ignoring case
MatchAt(s, i, p) ==
    /\ i + Len(p) - 1 <= Len(s)
    /\ LowerStr(SubSeq(s, i, i + Len(p) - 1)) = p

Contains(s, p) == \E i \in 1..Len(s) : MatchAt(s, i, p)

SetMax(J) == CHOOSE j \in J : \A k \in J : k <= j

SetMin(J) == CHOOSE j \in J : \A k \in J : j <= k

\* where a greedy match of  open .* official .* close  that starts at i ends
BracketEnds(s, i, open, close) ==
    IF Char(s, i) # open THEN {}
    ELSE {j \in (i + 1)..Len(s) :
             Char(s, j) = close /\ Contains(SubSeq(s, i + 1, j - 1), "official")}

\* re.sub(r"\(.*official.*\)", "", s, flags=re.IGNORECASE) from position i on
RECURSIVE SubBracket(_, _, _, _)
SubBracket(s, i, open, close) ==
    IF i > Len(s) THEN ""
    ELSE IF BracketEnds(s, i, open, close) # {}
         THEN SubBracket(s, SetMax(BracketEnds(s, i, open, close)) + 1, open, close)
         ELSE Char(s, i) \o SubBracket(s, i + 1, open, close)

\* the alternatives of the noise pattern, in the order the regex tries them
NoiseTokens == <<"official audio", "official video", "lyrics", "mv", "hd", "4k">>

NoiseAt(s, i) == {k \in 1..Len(NoiseTokens) : MatchAt(s, i, NoiseTokens[k])}

\* re.sub(r"official audio|official video|lyrics|mv|hd|4k", "", s, IGNORECASE)
RECURSIVE SubNoise(_, _)
SubNoise(s, i) ==
    IF i > Len(s) THEN ""
    ELSE IF NoiseAt(s, i) # {}
         THEN SubNoise(s, i + Len(NoiseTokens[SetMin(NoiseAt(s, i))]))
         ELSE Char(s, i) \o SubNoise(s, i + 1)

\* re.sub(r"ft\.", "feat.", s, flags=re.IGNORECASE)
RECURSIVE SubFt(_, _)
SubFt(s, i) ==
    IF i > Len(s) THEN ""
    ELSE IF MatchAt(s, i, "ft.")
         THEN "feat." \o SubFt(s, i + Len("ft."))
         ELSE Char(s, i) \o SubFt(s, i + 1)

\* re.sub(r"\s+", " ", s): the first blank of every run is kept
RECURSIVE SubSpaces(_, _)
SubSpaces(s, i) ==
    IF i > Len(s) THEN ""
    ELSE IF Char(s, i) = " " /\ i > 1 /\ Char(s, i - 1) = " "
         THEN SubSpaces(s, i + 1)
         ELSE Char(s, i) \o SubSpaces(s, i + 1)

\* str.strip() of a string whose only whitespace is the blank
RECURSIVE Strip(_)
Strip(s) ==
    IF s = "" THEN ""
    ELSE IF Char(s, 1) = " " THEN Strip(SubSeq(s, 2, Len(s)))
    ELSE IF Char(s, Len(s)) = " " THEN Strip(SubSeq(s, 1, Len(s) - 1))
    ELSE s

clean_song_title(title) ==
    IF title = "" THEN title
    ELSE LET s1 == SubBracket(title, 1, "(", ")")
             s2 == SubBracket(s1, 1, "[", "]")
             s3 == SubNoise(s2, 1)
             s4 == SubFt(s3, 1)
         IN  Strip(SubSpaces(s4, 1))

\* ---------------------------------------------- clean_song_title on its own
\* Titles as the resolvers return them: a name followed by up to two
\* annotations.
TitleBases == {"Song Title", "Artist ft. Guest - Birthday", "Tum Hi Ho"}

TitleTags == {"", " (Official Video)", " [Lyrics]", " [Official Audio]",
              " (Lyrics)", " HD", " 4K"}

RawTitles == {b \o t \o u : b \in TitleBases, t \in TitleTags, u \in TitleTags}

InitTitle ==
    /\ queues = [g \in Guilds |-> NoQueueRow]
    /\ guild_settings = [g \in Guilds |-> NoSettingsRow]
    /\ now_playing = [g \in Guilds |-> None]
    /\ voice_locks = [g \in Guilds |-> FALSE]
    /\ connected = [g \in Guilds |-> FALSE]
    /\ streams = [g \in Guilds |-> <<>>]
    /\ afterPending = [g \in Guilds |-> 0]
    /\ scheduled = [g \in Guilds |-> 0]
    /\ resolving = [g \in Guilds |-> EmptyBag]
    /\ timers = [g \in Guilds |-> NoTimers]
    /\ playurlPending = [g \in Guilds |-> 0]
    /\ closing = [g \in Guilds |-> "no"]
    /\ enqSinceArm = [g \in Guilds |-> FALSE]
    /\ addLog = <<>>
    /\ advCount = 0
    /\ lastCmd = [g \in Guilds |-> NoCmd]
    /\ \E title \in RawTitles : fnIn = [op |-> "clean_song_title", title |-> title]
    /\ fnOut = NoCall
    /\ LyricsIdle

CleanTitleCall ==
    /\ fnIn.op = "clean_song_title"
    /\ fnOut = NoCall
    /\ fnOut' = [op |-> "clean_song_title", value |-> clean_song_title(fnIn.title)]
    /\ UNCHANGED <<queues, guild_settings, fnIn, sched, lyr>>

NextTitle == CleanTitleCall

SpecTitle == InitTitle /\ [][NextTitle]_vars

\* ------------------------------------------ get_lyrics_from_genius on its own
\* A URL is known by the two markers the code looks for: "/albums/" and
\* "-lyrics".  A hit has a URL, a type, a primary artist that contains the
\* artist of the query or not, and a title that contains its title or not;
\* no URL or title holds another reject keyword.  pageOk says for which URLs
\* fetch, extraction and _is_likely_lyrics all succeed.
MaxHits == 2

Urls == [albums : BOOLEAN, lyrics : BOOLEAN]

Hits == [url : Urls, song : BOOLEAN, artistMatch : BOOLEAN, titleMatch : BOOLEAN]

HitLists == UNION {[1..n -> Hits] : n \in 0..MaxHits}

looks_like_non_song(h) == h.url.albums

\* hits.index(h), counted from 0
IndexOf(hits, h) == SetMin({i \in 1..Len(hits) : hits[i] = h}) - 1

\* score() of _select_best_genius_result
score(hits, h) ==
    (IF h.url.lyrics THEN 100 ELSE 0) + (IF h.song THEN 20 ELSE 0)
        + (IF h.artistMatch THEN 50 ELSE 0)
        + (IF h.titleMatch THEN 30 ELSE 0) + Max(0, 5 - IndexOf(hits, h))

\* max(candidates, key=score): the first of the highest score
FirstBest(hits, candidates) ==
    candidates[SetMin({i \in 1..Len(candidates) :
        \A j \in 1..Len(candidates) :
            score(hits, candidates[j]) <= score(hits, candidates[i])})]

\* the candidates _select_best_genius_result chooses from
Candidates(hits) ==
    LET kept == SelectSeq(hits, LAMBDA h : ~looks_like_non_song(h))
    IN  IF kept = <<>> THEN hits ELSE kept

select_best_genius_result(hits) == FirstBest(hits, Candidates(hits))

NotFound == [found |-> FALSE, url |-> [albums |-> FALSE, lyrics |-> FALSE]]

\* the loop over results: _try_result skips a URL already tried and returns
\* the text of the first page that passes
RECURSIVE TryAll(_, _, _)
TryAll(results, tried, pageOk) ==
    IF results = <<>> THEN NotFound
    ELSE IF Head(results).url \notin tried /\ pageOk[Head(results).url]
         THEN [found |-> TRUE, url |-> Head(results).url]
         ELSE TryAll(Tail(results), tried \cup {Head(results).url}, pageOk)

\* sorted(hits, key=...): hits with "-lyrics" in the URL first, order kept
LyricsFirst(hits) ==
    SelectSeq(hits, LAMBDA h : h.url.lyrics) \o SelectSeq(hits, LAMBDA h : ~h.url.lyrics)

\* get_lyrics_from_genius with a token and an empty cache: the URL whose
\* text is returned
get_lyrics_from_genius(hits, pageOk) ==
    IF hits = <<>> THEN NotFound
    ELSE LET best == select_best_genius_result(hits)
         IN  IF pageOk[best.url]
             THEN [found |-> TRUE, url |-> best.url]
             ELSE TryAll(LyricsFirst(hits) \o hits, {best.url}, pageOk)

InitGenius ==
    /\ queues = [g \in Guilds |-> NoQueueRow]
    /\ guild_settings = [g \in Guilds |-> NoSettingsRow]
    /\ now_playing = [g \in Guilds |-> None]
    /\ voice_locks = [g \in Guilds |-> FALSE]
    /\ connected = [g \in Guilds |-> FALSE]
    /\ streams = [g \in Guilds |-> <<>>]
    /\ afterPending = [g \in Guilds |-> 0]
    /\ scheduled = [g \in Guilds |-> 0]
    /\ resolving = [g \in Guilds |-> EmptyBag]
    /\ timers = [g \in Guilds |-> NoTimers]
    /\ playurlPending = [g \in Guilds |-> 0]
    /\ closing = [g \in Guilds |-> "no"]
    /\ enqSinceArm = [g \in Guilds |-> FALSE]
    /\ addLog = <<>>
    /\ advCount = 0
    /\ lastCmd = [g \in Guilds |-> NoCmd]
    /\ \E hits \in HitLists : \E pageOk \in [Urls -> BOOLEAN] :
           fnIn = [op |-> "get_lyrics_from_genius", hits |-> hits, pageOk |-> pageOk]
    /\ fnOut = NoCall
    /\ LyricsIdle

GeniusCall ==
    /\ fnIn.op = "get_lyrics_from_genius"
    /\ fnOut = NoCall
    /\ fnOut' = [op |-> "get_lyrics_from_genius",
                 result |-> get_lyrics_from_genius(fnIn.hits, fnIn.pageOk)]
    /\ UNCHANGED <<queues, guild_settings, fnIn, sched, lyr>>

NextGenius == GeniusCall

SpecGenius == InitGenius /\ [][NextGenius]_vars

\* --------------------------------- _select_best_genius_result on its own
\* The function is called on a non-empty list of hits; fnIn holds the list
\* and fnOut the hit whose result is returned.
InitSelect ==
    /\ queues = [g \in Guilds |-> NoQueueRow]
    /\ guild_settings = [g \in Guilds |-> NoSettingsRow]
    /\ now_playing = [g \in Guilds |-> None]
    /\ voice_locks = [g \in Guilds |-> FALSE]
    /\ connected = [g \in Guilds |-> FALSE]
    /\ streams = [g \in Guilds |-> <<>>]
    /\ afterPending = [g \in Guilds |-> 0]
    /\ scheduled = [g \in Guilds |-> 0]
    /\ resolving = [g \in Guilds |-> EmptyBag]
    /\ timers = [g \in Guilds |-> NoTimers]
    /\ playurlPending = [g \in Guilds |-> 0]
    /\ closing = [g \in Guilds |-> "no"]
    /\ enqSinceArm = [g \in Guilds |-> FALSE]
    /\ addLog = <<>>
    /\ advCount = 0
    /\ lastCmd = [g \in Guilds |-> NoCmd]
    /\ \E hits \in HitLists \ {<<>>} :
           fnIn = [op |-> "select_best_genius_result", hits |-> hits]
    /\ fnOut = NoCall
    /\ LyricsIdle

SelectCall ==
    /\ fnIn.op = "select_best_genius_result"
    /\ fnOut = NoCall
    /\ fnOut' = [op |-> "select_best_genius_result",
                 best |-> select_best_genius_result(fnIn.hits)]
    /\ UNCHANGED <<queues, guild_settings, fnIn, sched, lyr>>

NextSelect == SelectCall

SpecSelect == InitSelect /\ [][NextSelect]_vars

\* ------------------------------------------------ _is_likely_lyrics on its own
\* A non-blank, stripped line is known by what the function looks at: its
\* length, whether it holds a month name, whether it starts with a number of
\* one or two digits, and whether it is "[...]".  A text is a sequence of
\* runs of equal lines; it has a non-blank line, as every text that
\* _extract_from_genius_html returns has.
LineLens == {80, 81, 119, 120, 180, 181}

PlainLines == {[len |-> n, month |-> FALSE, day |-> FALSE, bracket |-> FALSE] : n \in LineLens}

\* "January rain", "12 steps", "12 January 2020" and "[Chorus]"
MarkedLines ==
    {ln \in [len : {20}, month : BOOLEAN, day : BOOLEAN, bracket : BOOLEAN] :
        IF ln.bracket THEN ~ln.month /\ ~ln.day ELSE ln.month \/ ln.day}

LineKinds == PlainLines \cup MarkedLines

RunLengths == {1, 2, 3, 5, 6, 20}

Runs == [line : LineKinds, count : RunLengths]

Texts == UNION {[1..n -> Runs] : n \in 1..MaxBlocks}

\* text.splitlines() of the text with the given runs
RECURSIVE LinesOf(_)
LinesOf(runs) ==
    IF runs = <<>> THEN <<>>
    ELSE [i \in 1..Head(runs).count |-> Head(runs).line] \o LinesOf(Tail(runs))

\* sum(1 for ln in lines if P(ln))
CountLines(lines, P(_)) == Cardinality({i \in 1..Len(lines) : P(lines[i])})

is_likely_lyrics(lines) ==
    LET long_paras == CountLines(lines, LAMBDA ln : ln.len > 180)
        short_lines == CountLines(lines, LAMBDA ln : 1 <= ln.len /\ ln.len <= 80)
        first_n == SubSeq(lines, 1, Min(20, Len(lines)))
        bracketed == \E i \in 1..Len(first_n) : first_n[i].bracket
        month_lines == CountLines(lines, LAMBDA ln : ln.month)
        date_lines == CountLines(lines, LAMBDA ln : ln.day)
    IN  IF lines = <<>> THEN FALSE
        ELSE IF long_paras >= 3 /\ short_lines < 5 THEN FALSE
        ELSE IF month_lines + date_lines > 5 THEN FALSE
        ELSE IF bracketed THEN TRUE
        ELSE 2 * CountLines(first_n, LAMBDA ln : ln.len < 120) >= Max(1, Len(first_n))

InitLikely ==
    /\ queues = [g \in Guilds |-> NoQueueRow]
    /\ guild_settings = [g \in Guilds |-> NoSettingsRow]
    /\ now_playing = [g \in Guilds |-> None]
    /\ voice_locks = [g \in Guilds |-> FALSE]
    /\ connected = [g \in Guilds |-> FALSE]
    /\ streams = [g \in Guilds |-> <<>>]
    /\ afterPending = [g \in Guilds |-> 0]
    /\ scheduled = [g \in Guilds |-> 0]
    /\ resolving = [g \in Guilds |-> EmptyBag]
    /\ timers = [g \in Guilds |-> NoTimers]
    /\ playurlPending = [g \in Guilds |-> 0]
    /\ closing = [g \in Guilds |-> "no"]
    /\ enqSinceArm = [g \in Guilds |-> FALSE]
    /\ addLog = <<>>
    /\ advCount = 0
    /\ lastCmd = [g \in Guilds |-> NoCmd]
    /\ \E text \in Texts : fnIn = [op |-> "is_likely_lyrics", text |-> text]
    /\ fnOut = NoCall
    /\ LyricsIdle

LikelyCall ==
    /\ fnIn.op = "is_likely_lyrics"
    /\ fnOut = NoCall
    /\ fnOut' = [op |-> "is_likely_lyrics", value |-> is_likely_lyrics(LinesOf(fnIn.text))]
    /\ UNCHANGED <<queues, guild_settings, fnIn, sched, lyr>>

NextLikely == LikelyCall

SpecLikely == InitLikely /\ [][NextLikely]_vars

\* ------------------------------------------------------- get_best_lyrics
\* Concurrent get_best_lyrics calls.  A call runs without suspension up to
\* the next HTTP request; `async with _FETCH_SEMAPHORE` suspends only when
\* the semaphore has no permit.  Every provider answer is an input: a text,
\* an answer without text, a status other than 200, a network error, a body
\* that does not parse, or search hits of an unexpected shape.
Ret(val) == [raised |-> FALSE, val |-> val]

Raise == [raised |-> TRUE, val |-> ""]

\* a try block whose handler lets the exception through
TryExceptReraise(r) == r

\* try: ... except Exception: the exception becomes the value None
TryExcept(r) == IF r.raised THEN Ret("") ELSE r

BestKey(artist) == [kind |-> "best", artist |-> artist]

OvhKey(artist) == [kind |-> "ovh", artist |-> artist]

GeniusKey(artist) == [kind |-> "genius", artist |-> artist]

OvhAnswers == {"text", "empty", "status", "network", "parse"}

SearchAnswers == {"hits", "empty", "status", "network", "parse", "malformed"}

PageAnswers == {"lyrics", "no_lyrics", "status", "network", "parse"}

\* a semaphore that never makes a caller wait
CanAcquireAlways(p) == TRUE

\* Semaphore.acquire returns at once while the value is positive
CanAcquire(p) == p > 0

\* requests in flight: every one is made inside `async with _FETCH_SEMAPHORE`
Fetching == {l \in Lookups : lookups[l].pc = "fetch"}

\* get_best_lyrics returns the cached text of its own key
ReturnCached(l, C, val) ==
    /\ lookups' = [lookups EXCEPT ![l] = Idle]
    /\ cache' = C
    /\ fnOut' = [op |-> "get_best_lyrics", raised |-> FALSE, value |-> val,
                 after |-> "cached"]
    /\ UNCHANGED permits

\* a get_best_lyrics that returns the text without caching it
ReturnUncached(l, C, p, artist, r, after) ==
    LET rr == TryExcept(r)
    IN  /\ lookups' = [lookups EXCEPT ![l] = Idle]
        /\ permits' = p
        /\ cache' = C
        /\ fnOut' = [op |-> "get_best_lyrics", raised |-> rr.raised,
                     value |-> rr.val, after |-> after]

\* get_best_lyrics ends with result r of get_lyrics_from_ovh or
\* get_lyrics_from_genius: a text is cached under the best key and returned,
\* an exception of the Genius step is passed over and None is returned;
\* `after` is what the call met last
Return(l, C, p, artist, r, after) ==
    LET rr == TryExcept(r)
    IN  /\ lookups' = [lookups EXCEPT ![l] = Idle]
        /\ permits' = p
        /\ cache' = IF ~rr.raised /\ rr.val # ""
                    THEN cache_set(C, BestKey(artist), rr.val, clock) ELSE C
        /\ fnOut' = [op |-> "get_best_lyrics", raised |-> rr.raised,
                     value |-> rr.val, after |-> after]

\* `async with _FETCH_SEMAPHORE` is reached with p permits
Request(l, C, p, artist, step, left) ==
    /\ lookups' = [lookups EXCEPT ![l] =
           [pc |-> IF CanAcquire(p) THEN "fetch" ELSE "wait",
            step |-> step, artist |-> artist, left |-> left]]
    /\ permits' = IF CanAcquire(p) THEN p - 1 ELSE p
    /\ cache' = C
    /\ UNCHANGED fnOut

\* get_lyrics_from_genius up to the request of _genius_search_hits
Genius(l, C, p, artist) ==
    IF ~token THEN Return(l, C, p, artist, Ret(""), "no token")
    ELSE LET got == cache_get(C, GeniusKey(artist), clock)
         IN  IF got.val # ""
             THEN Return(l, got.store, p, artist, Ret(got.val), "cached")
             ELSE Request(l, got.store, p, artist, "search", 0)

\* get_best_lyrics is called: cache lookup, then get_lyrics_from_ovh (which
\* returns None for an empty artist) up to its request
start(l, artist) ==
    /\ lookups[l].pc = "idle"
    /\ LET got == cache_get(cache, BestKey(artist), clock)
       IN  IF got.val # "" THEN ReturnCached(l, got.store, got.val)
           ELSE IF artist = "" THEN Genius(l, got.store, permits, artist)
           ELSE LET ovh == cache_get(got.store, OvhKey(artist), clock)
                IN  IF ovh.val # ""
                    THEN Return(l, ovh.store, permits, artist, Ret(ovh.val), "cached")
                    ELSE Request(l, ovh.store, permits, artist, "ovh", 0)
    /\ UNCHANGED <<queues, guild_settings, sched, fnIn, clock, token>>

\* a waiting call takes a permit
acquire(l) ==
    /\ lookups[l].pc = "wait"
    /\ CanAcquire(permits)
    /\ lookups' = [lookups EXCEPT ![l].pc = "fetch"]
    /\ permits' = permits - 1
    /\ UNCHANGED <<queues, guild_settings, sched, fn, cache, clock, token>>

\* the request of get_lyrics_from_ovh ends; the semaphore is released
ovh_done(l, answer) ==
    /\ lookups[l].pc = "fetch"
    /\ lookups[l].step = "ovh"
    /\ LET artist == lookups[l].artist
           r == IF answer \in {"network", "parse"} THEN TryExcept(Raise)
                ELSE IF answer = "text" THEN Ret("ovh lyrics") ELSE Ret("")
       IN  IF r.raised THEN Return(l, cache, permits + 1, artist, r, answer)
           ELSE IF r.val # ""
           THEN Return(l, cache_set(cache, OvhKey(artist), r.val, clock),
                       permits + 1, artist, r, answer)
           ELSE Genius(l, cache, permits + 1, artist)
    /\ UNCHANGED <<queues, guild_settings, sched, fnIn, clock, token>>

\* the request of _genius_search_hits ends; n results carry a URL that has
\* not been tried.  Hits of an unexpected shape make
\* _select_best_genius_result raise.
search_done(l, answer, n) ==
    /\ lookups[l].pc = "fetch"
    /\ lookups[l].step = "search"
    /\ LET artist == lookups[l].artist
           hits == IF answer \in {"network", "parse"} THEN TryExcept(Raise)
                   ELSE Ret("")
       IN  IF hits.raised \/ answer = "malformed"
           THEN Return(l, cache, permits + 1, artist, Raise, answer)
           ELSE IF answer = "hits" /\ n > 0
           THEN Request(l, cache, permits + 1, artist, "page", n - 1)
           ELSE Return(l, cache, permits + 1, artist, Ret(""), answer)
    /\ UNCHANGED <<queues, guild_settings, sched, fnIn, clock, token>>

\* the request of _fetch_genius_page ends; _try_result extracts and checks
\* the text, and the next untried result follows a page that gave none
page_done(l, answer) ==
    /\ lookups[l].pc = "fetch"
    /\ lookups[l].step = "page"
    /\ LET artist == lookups[l].artist
           html == IF answer = "network" THEN TryExcept(Raise) ELSE Ret("")
       IN  IF html.raised \/ answer = "parse"
           THEN Return(l, cache, permits + 1, artist, Raise, answer)
           ELSE IF answer = "lyrics"
           THEN Return(l, cache_set(cache, GeniusKey(artist), "genius lyrics", clock),
                       permits + 1, artist, Ret("genius lyrics"), answer)
           ELSE IF lookups[l].left > 0
           THEN Request(l, cache, permits + 1, artist, "page", lookups[l].left - 1)
           ELSE Return(l, cache, permits + 1, artist, Ret(""), answer)
    /\ UNCHANGED <<queues, guild_settings, sched, fnIn, clock, token>>

\* time passes
Tick(t) ==
    /\ t > clock
    /\ clock' = t
    /\ UNCHANGED <<queues, guild_settings, sched, fn, lookups, permits, cache, token>>

\* two calls, with and without an artist, while time passes; GENIUS_TOKEN is
\* set or not
TwoLookups == {1, 2}

InitLyrics ==
    /\ queues = [g \in Guilds |-> NoQueueRow]
    /\ guild_settings = [g \in Guilds |-> NoSettingsRow]
    /\ now_playing = [g \in Guilds |-> None]
    /\ voice_locks = [g \in Guilds |-> FALSE]
    /\ connected = [g \in Guilds |-> FALSE]
    /\ streams = [g \in Guilds |-> <<>>]
    /\ afterPending = [g \in Guilds |-> 0]
    /\ scheduled = [g \in Guilds |-> 0]
    /\ resolving = [g \in Guilds |-> EmptyBag]
    /\ timers = [g \in Guilds |-> NoTimers]
    /\ playurlPending = [g \in Guilds |-> 0]
    /\ closing = [g \in Guilds |-> "no"]
    /\ enqSinceArm = [g \in Guilds |-> FALSE]
    /\ addLog = <<>>
    /\ advCount = 0
    /\ lastCmd = [g \in Guilds |-> NoCmd]
    /\ fnIn = NoCall
    /\ fnOut = NoCall
    /\ lookups = [l \in Lookups |-> Idle]
    /\ permits = FETCH_SEMAPHORE
    /\ cache = [k \in Keys |-> NoEntry]
    /\ clock = 0
    /\ token \in BOOLEAN

NextLyrics ==
    \/ \E l \in TwoLookups : \E artist \in Artists : start(l, artist)
    \/ \E l \in TwoLookups : \E answer \in OvhAnswers : ovh_done(l, answer)
    \/ \E l \in TwoLookups : \E answer \in SearchAnswers : \E n \in 0..MaxHits :
           search_done(l, answer, n)
    \/ \E l \in TwoLookups : \E answer \in PageAnswers : page_done(l, answer)
    \/ \E t \in Instants : Tick(t)

SpecLyrics == InitLyrics /\ [][NextLyrics]_vars

\* more calls than the semaphore has permits, all for one artist and title
InitFetch == Init

NextFetch ==
    \/ \E l \in Lookups : start(l, "x")
    \/ \E l \in Lookups : acquire(l)
    \/ \E l \in Lookups : \E answer \in OvhAnswers : ovh_done(l, answer)
    \/ \E l \in Lookups : \E answer \in SearchAnswers : \E n \in 0..MaxHits :
           search_done(l, answer, n)
    \/ \E l \in Lookups : \E answer \in PageAnswers : page_done(l, answer)

SpecFetch == InitFetch /\ [][NextFetch]_vars

\* ------------------------------------------- the lyrics cache on its own
\* _cache_set and _cache_get are called on two keys while time passes; fnIn
\* records the last store and fnOut the last lookup after it.
CacheKeys == {BestKey(artist) : artist \in Artists}

CacheTexts == {"ovh lyrics", "genius lyrics"}

InitCache == Init

CacheSetCall(key, val) ==
    /\ cache' = cache_set(cache, key, val, clock)
    /\ fnIn' = [op |-> "cache_set", key |-> key, val |-> val, at |-> clock]
    /\ fnOut' = NoCall
    /\ UNCHANGED <<queues, guild_settings, sched, lookups, permits, clock, token>>

CacheGetCall(key) ==
    /\ LET got == cache_get(cache, key, clock)
       IN  /\ cache' = got.store
           /\ fnOut' = [op |-> "cache_get", key |-> key, value |-> got.val,
                        at |-> clock]
    /\ UNCHANGED <<queues, guild_settings, sched, fnIn, lookups, permits, clock, token>>

NextCache ==
    \/ \E key \in CacheKeys : \E val \in CacheTexts : CacheSetCall(key, val)
    \/ \E key \in CacheKeys : CacheGetCall(key)
    \/ \E t \in Instants : Tick(t)

SpecCache == InitCache /\ [][NextCache]_vars

\* ================================================================ claims
Queue(g) == load_queue(queues, g)

Looping(g) == load_guild_settings(guild_settings, g).is_looping

\* C1: for every guild at most one advance (pop, stream resolution, start of
\* playback) is in flight at any time.
C1_OneAdvanceInFlight == \A g \in Guilds : BagCardinality(resolving[g]) <= 1

\* C2: a skip command and the natural completion of the playing track, both
\* due at once, pop exactly one song: never two advances, and once the stream
\* has ended and its callback has run the queue is the enqueued one minus its
\* head (rotated when looping).
C2_SkipAndCompletionPopOnce ==
    \A g \in Active :
        LET q == addLog[1].songs
            popped == IF Looping(g) THEN Append(Tail(q), Head(q)) ELSE Tail(q)
        IN  /\ advCount <= 1
            /\ advCount = 0 => Queue(g) = q
            /\ advCount = 1 => Queue(g) = popped /\ now_playing[g] = Head(q)
            /\ (streams[g] = <<>> /\ afterPending[g] = 0 /\ scheduled[g] = 0)
                   => advCount = 1

C2_Witness ==
    \E g \in Active :
        /\ advCount = 1
        /\ streams[g] = <<>>
        /\ BagCardinality(resolving[g]) = 1
        /\ Len(Queue(g)) + 1 = Len(addLog[1].songs)

\* C3: an advance that starts while another advance of the guild is in flight
\* is a no-op: it pops nothing, changes no current song and does not go on to
\* resolve a stream.
C3_SecondAdvanceNoOp ==
    [][\A g \in Guilds :
          (play_next_locked(g) /\ resolving[g] # EmptyBag)
              => /\ queues'[g] = queues[g]
                 /\ now_playing'[g] = now_playing[g]
                 /\ resolving'[g] = resolving[g]]_vars

\* C4: at any time at most one audio stream is active in a guild's voice
\* connection.
C4_OneStream == \A g \in Guilds : Len(streams[g]) <= 1

\* two advances overlapped: the stream of the later pop was stopped by the
\* start of the stream of the earlier pop, and its callback is still due
C4_Witness ==
    \E g \in Guilds :
        /\ Len(streams[g]) = 1
        /\ streams[g][1].song # now_playing[g]
        /\ now_playing[g] # None
        /\ afterPending[g] >= 1

\* C5: with loop enabled and a queue holding the single song S, an advance
\* sets the current song to S and leaves the queue holding exactly S.
C5_LoopSingleSong ==
    [][\A g \in Guilds :
          (play_next_locked(g) /\ Looping(g) /\ Len(Queue(g)) = 1)
              => /\ now_playing'[g] = Head(Queue(g))
                 /\ load_queue(queues', g) = Queue(g)]_vars

C5_Witness ==
    \E g \in Guilds : \E t \in BagToSet(resolving[g]) :
        /\ t.looping
        /\ Looping(g)
        /\ Queue(g) = <<t.song>>
        /\ now_playing[g] = t.song
        /\ load_guild_settings(guild_settings, g).previous_played = t.song

\* C6: after any sequence of add_song_to_queue calls on an empty queue the
\* stored queue is the songs of the play_now calls, latest call first,
\* followed by the songs of the other calls in call order.
RECURSIVE Appended(_)
Appended(log) ==
    IF log = <<>> THEN <<>>
    ELSE (IF Head(log).play_now THEN <<>> ELSE Head(log).songs) \o Appended(Tail(log))

RECURSIVE Prepended(_)
Prepended(log) ==
    IF log = <<>> THEN <<>>
    ELSE Prepended(Tail(log)) \o (IF Head(log).play_now THEN Head(log).songs ELSE <<>>)

C6_QueueOrder == \A g \in Active : Queue(g) = Prepended(addLog) \o Appended(addLog)

C6_Witness ==
    \E g \in Active :
        /\ Len(addLog) >= 3
        /\ addLog[1].play_now = FALSE
        /\ addLog[2].play_now = TRUE
        /\ addLog[3].play_now = FALSE
        /\ Len(Queue(g)) >= 4

\* C7: after [A, B] is enqueued on an idle guild, the first advance makes A
\* current and leaves [B], the second makes B current and leaves [], the
\* third clears the current song and arms the idle timer; there is no fourth.
C7_EnqueueTwoThenAdvance ==
    \A g \in Active :
        LET a == addLog[1].songs[1]
            b == addLog[1].songs[2]
        IN  /\ advCount <= 3
            /\ advCount = 0 => now_playing[g] = None /\ Queue(g) = <<a, b>>
            /\ advCount = 1 => now_playing[g] = a /\ Queue(g) = <<b>>
            /\ advCount = 2 => now_playing[g] = b /\ Queue(g) = <<>>
            /\ advCount = 3 => now_playing[g] = None /\ Queue(g) = <<>>
            /\ (timers[g].live = 1) = (advCount = 3)
            /\ \A i \in 1..Len(streams[g]) : streams[g][i].song = now_playing[g]

C7_Witness ==
    \E g \in Active :
        /\ advCount = 3
        /\ timers[g].live = 1
        /\ now_playing[g] = None
        /\ load_guild_settings(guild_settings, g).previous_played = addLog[1].songs[2]

\* C8: once a song has been enqueued after the idle timer was armed, the
\* timer's firing does not release the voice connection.
C8_EnqueueCancelsTimer ==
    [][\A g \in Guilds :
          (idle_disconnect(g, TRUE) /\ enqSinceArm[g]) => connected'[g]]_vars

\* the advance put its song back on the queue (its local `looping` was true)
Reenqueued(t) == t.looping

\* C9: when stream resolution fails for the song an advance popped, the
\* advance has not re-enqueued that song, and a retry is scheduled.
C9_FailedSongDiscarded ==
    [][\A g \in Guilds : \A t \in BagToSet(resolving[g]) :
          ResolveFail(g, t)
              => ~Reenqueued(t) /\ scheduled'[g] = scheduled[g] + 1]_vars

\* C10: with a resolver that fails for every song the retried advances reach
\* the state with empty queue, null current song and no advance left.
C10_FailingResolverTerminates ==
    <>(\A g \in Guilds :
          /\ Queue(g) = <<>>
          /\ now_playing[g] = None
          /\ scheduled[g] = 0
          /\ resolving[g] = EmptyBag)

\* nothing of the guild is left to run: no callback, no advance, no disconnect
Settled(g) == InFlight(g) = 0 /\ closing[g] = "no"

\* the state the spec calls Idle after a stop or leave
Released(g) == Queue(g) = <<>> /\ now_playing[g] = None /\ ~vc_for_guild(g)

\* C11: once stop is the last command that acted on a guild and every
\* callback, advance and disconnect it triggered or raced with has run, the
\* queue is empty, the current song is null and no voice client is left.
C11_StopReleases ==
    \A g \in Guilds : (lastCmd[g].cmd = "stop" /\ Settled(g)) => Released(g)

\* stop hit a connected guild, and an advance that ran after it found the
\* queue empty and cleared the current song a second time
C11_Witness ==
    \E g \in Guilds :
        /\ lastCmd[g].cmd = "stop"
        /\ Settled(g)
        /\ timers[g].dead > 0
        /\ guild_settings[g].present
        /\ load_guild_settings(guild_settings, g).previous_played = None

\* C12: once leave is the last command that acted on a guild and every
\* callback, advance and disconnect it triggered has run, the queue is empty,
\* the current song is null and no voice client is left.
C12_LeaveReleases ==
    \A g \in Guilds : (lastCmd[g].cmd = "leave" /\ Settled(g)) => Released(g)

\* C13: the guild's lock is not held while an advance of the guild resolves
\* its stream or starts playback: it was released after the pop and the
\* current-song update, before the resolver is called.
C13_LockReleasedBeforeResolve ==
    \A g \in Guilds : resolving[g] # EmptyBag => ~voice_locks[g]

C13_Witness ==
    \E g \in Guilds : \E t \in BagToSet(resolving[g]) :
        /\ ~voice_locks[g]
        /\ now_playing[g] = t.song
        /\ t.vcLive

\* C14: a pause, resume, skip or stop command holds the guild's lock while
\* it acts on the voice client.
C14_CommandsHoldLock ==
    \A g \in Guilds :
        lastCmd[g].cmd \in {"pause_resume", "skip", "stop"} => lastCmd[g].locked

\* C15: while an advance of guild g holds g's lock or waits for its resolver,
\* an advance that is due and a play or skip command of another guild h can
\* run at once.
C15_GuildsDoNotContend ==
    \A g \in Guilds : \A h \in Guilds \ {g} :
        (voice_locks[g] \/ resolving[g] # EmptyBag)
            => /\ scheduled[h] > 0 => ENABLED Advance(h)
               /\ (playurlPending[h] < MaxPending /\ closing[h] = "no")
                      => ENABLED playurl_ensure_voice(h)
               /\ (connected[h] /\ (is_playing(h) \/ is_paused(h)))
                      => ENABLED skip_cmd(h)

\* guild g waits for its resolver while an advance of guild h is due
C15_Witness ==
    \E g \in Guilds : \E h \in Guilds \ {g} :
        /\ resolving[g] # EmptyBag
        /\ scheduled[h] > 0

\* C16: a load_guild_settings that follows a save_guild_settings of the same
\* guild returns the volume, loop flag, last-played and previous-played
\* values that were saved, whatever row the guild had before the save.
C16_SettingsRoundTrip ==
    (fnIn.op = "save_guild_settings" /\ fnOut.op = "load_guild_settings"
        /\ fnOut.guild = fnIn.guild)
        => ~fnOut.raised /\ fnOut.value = fnIn.value

C16_Witness ==
    /\ fnIn.op = "save_guild_settings"
    /\ fnOut.op = "load_guild_settings"
    /\ fnOut.value.volume_level = 70
    /\ fnOut.value.is_looping
    /\ fnOut.value.last_played # None
    /\ fnOut.value.previous_played = None

\* a TEXT value that json.loads does not parse
BadText(cell) == ~cell.null /\ ~IsJson(cell)

\* what the claim calls a malformed stored value
BadQueueRow(r) == r.present /\ ~IsJson(r.queue_json)

BadSettingsRow(r) ==
    r.present /\ (r.row.volume_level.null \/ BadText(r.row.last_played)
                     \/ BadText(r.row.previous_played))

\* a read that no save preceded: the row is the one the table started with
ReadOf(op) == fnOut.op = op /\ fnIn.op = "none"

\* C17 as stated: a read of a missing or malformed value never raises;
\* load_queue returns [] and load_guild_settings returns the defaults
\* {volume 1.0, loop false, last null, previous null}.
C17_MissingOrMalformedReadsDefault ==
    /\ (ReadOf("load_queue")
           /\ (~queues[fnOut.guild].present \/ BadQueueRow(queues[fnOut.guild])))
          => ~fnOut.raised /\ fnOut.value = <<>>
    /\ (ReadOf("load_guild_settings")
           /\ (~guild_settings[fnOut.guild].present
                  \/ BadSettingsRow(guild_settings[fnOut.guild])))
          => /\ ~fnOut.raised
             /\ fnOut.value = [volume_level |-> 100, is_looping |-> FALSE,
                               last_played |-> None, previous_played |-> None]

\* C17 amended: a read of a missing key never raises and returns [] or the
\* defaults; a queue text that is not JSON reads as []; in a settings row
\* with a numeric volume, a last-played or previous-played text that is not
\* JSON reads as null and volume and loop flag read as stored.
C17_MissingReadsDefaultBadJsonReadsNull ==
    /\ (ReadOf("load_queue")
           /\ (~queues[fnOut.guild].present \/ BadQueueRow(queues[fnOut.guild])))
          => ~fnOut.raised /\ fnOut.value = <<>>
    /\ ReadOf("load_guild_settings")
          => LET r == guild_settings[fnOut.guild]
             IN  /\ ~r.present
                       => /\ ~fnOut.raised
                          /\ fnOut.value = [volume_level |-> 100, is_looping |-> FALSE,
                                            last_played |-> None, previous_played |-> None]
                 /\ (r.present /\ ~r.row.volume_level.null)
                       => /\ ~fnOut.raised
                          /\ fnOut.value.volume_level = r.row.volume_level.num
                          /\ fnOut.value.is_looping = (r.row.is_looping.num = 1)
                          /\ (BadText(r.row.last_played)
                                => fnOut.value.last_played = None)
                          /\ (BadText(r.row.previous_played)
                                => fnOut.value.previous_played = None)

\* a row with volume 0.7 and a truncated last-played text was read
C17_Witness ==
    /\ ReadOf("load_guild_settings")
    /\ BadText(guild_settings[fnOut.guild].row.last_played)
    /\ guild_settings[fnOut.guild].present
    /\ fnOut.value.volume_level = 70
    /\ fnOut.value.last_played = None
    /\ fnOut.value.previous_played # None

\* C18: after any sequence of /volume commands and -5% / +5% presses the
\* stored volume is within 0..200 percent, and a /volume outside 0..200 is
\* rejected and leaves the stored volume as it was.
C18_VolumeInRange ==
    /\ \A g \in Guilds : 0 <= StoredVolume(g) /\ StoredVolume(g) <= 200
    /\ fnIn.op = "volume_cmd"
          => IF fnIn.level < 0 \/ fnIn.level > 200
             THEN fnOut.reply = "rejected" /\ StoredVolume(fnIn.guild) = fnIn.before
             ELSE fnOut.reply = "set" /\ StoredVolume(fnIn.guild) = fnIn.level

\* /volume 201 was rejected at a stored volume the buttons had moved to 200%
C18_Witness ==
    /\ fnIn.op = "volume_cmd"
    /\ fnIn.level = 201
    /\ fnOut.reply = "rejected"
    /\ StoredVolume(fnIn.guild) = 200
    /\ streams[fnIn.guild] # <<>>

\* C19: clean_song_title maps "Song Title (Official Video) [Lyrics]" to
\* exactly "Song Title".
C19_TitleNormalized ==
    (fnOut.op = "clean_song_title"
        /\ fnIn.title = "Song Title (Official Video) [Lyrics]")
        => fnOut.value = "Song Title"

\* C20: get_lyrics_from_genius never returns text taken from a candidate
\* whose URL contains "/albums/", also when that page would pass extraction
\* and validation.
C20_NoAlbumText ==
    (fnOut.op = "get_lyrics_from_genius" /\ fnOut.result.found)
        => ~fnOut.result.url.albums

\* C21: get_best_lyrics never raises: whatever the providers answer at any
\* step (network error, status other than 200, body that does not parse,
\* hits of an unexpected shape, no token), the caller receives a lyric text
\* or None.
C21_BestLyricsNeverRaises ==
    fnOut.op = "get_best_lyrics"
        => ~fnOut.raised /\ fnOut.value \in {"", "ovh lyrics", "genius lyrics"}

\* a call ended on search hits of an unexpected shape
C21_Witness ==
    /\ fnOut.op = "get_best_lyrics"
    /\ fnOut.after = "malformed"
    /\ fnOut.value = ""

\* the last lookup of the key stored last: a hit up to the store time plus
\* the TTL, a miss after it
HitUntilTtl ==
    (fnIn.op = "cache_set" /\ fnOut.op = "cache_get" /\ fnOut.key = fnIn.key)
        => fnOut.value = IF fnOut.at <= fnIn.at + 3600 THEN fnIn.val ELSE ""

\* C22: a cache entry stored at time t is returned by lookups until t + 3600
\* and is a miss afterwards; an entry leaves the cache only in a lookup of its
\* own key made after its expiry, never in a step on another key or by the
\* passing of time.
C22_EntryLivesForTtl ==
    [][/\ HitUntilTtl'
       /\ \A k \in Keys :
            (cache[k].present /\ ~cache'[k].present)
                => /\ fnOut'.op = "cache_get"
                   /\ fnOut'.key = k
                   /\ clock > cache[k].expiry]_vars

\* a lookup one second after the TTL missed and removed its entry, while the
\* expired entry of the other key is still stored
C22_Witness ==
    /\ fnIn.op = "cache_set"
    /\ fnOut.op = "cache_get"
    /\ fnOut.key = fnIn.key
    /\ fnOut.at = fnIn.at + CACHE_TTL + 1
    /\ fnOut.value = ""
    /\ ~cache[fnOut.key].present
    /\ \E k \in Keys : k # fnOut.key /\ cache[k].present /\ clock > cache[k].expiry

\* C23: the HTTP requests in flight (lyrics.ovh fetch, Genius search, Genius
\* page fetch, over all concurrent calls) are never more than 4.
C23_FetchesBounded == Cardinality(Fetching) <= 4

C23_Witness ==
    /\ Cardinality(Fetching) = 4
    /\ \E l \in Lookups : lookups[l].pc = "wait"

\* C24: the clear command empties the queue and keeps the current song: the
\* current-song value and the active stream are unchanged, and nothing ends
\* the stream or starts an advance.
C24_ClearKeepsCurrent ==
    [][\A g \in Guilds :
          clear_cmd(g)
              => /\ load_queue(queues', g) = <<>>
                 /\ now_playing' = now_playing
                 /\ streams' = streams
                 /\ afterPending' = afterPending
                 /\ scheduled' = scheduled
                 /\ connected' = connected
                 /\ guild_settings' = guild_settings]_vars

C24_Witness ==
    \E g \in Guilds :
        /\ lastCmd[g].cmd = "clear"
        /\ queues[g].present
        /\ Queue(g) = <<>>
        /\ now_playing[g] # None
        /\ is_playing(g)
        /\ streams[g][1].song = now_playing[g]

Distinct(q) == \A i \in 1..Len(q) : \A j \in 1..Len(q) : i # j => q[i] # q[j]

Count(q, x) == Cardinality({i \in 1..Len(q) : q[i] = x})

\* C25: after an advance that pops S from a queue of distinct songs, S is
\* not in the queue when loop is disabled, and S is in the queue exactly once,
\* as its last item, when loop is enabled.
C25_PoppedSongPlace ==
    [][\A g \in Guilds :
          (play_next_locked(g) /\ Queue(g) # <<>> /\ Distinct(Queue(g)))
              => LET S == Head(Queue(g))
                     q == load_queue(queues', g)
                 IN  /\ now_playing'[g] = S
                     /\ IF Looping(g)
                        THEN Count(q, S) = 1 /\ q[Len(q)] = S
                        ELSE Count(q, S) = 0]_vars

\* the advance popped the first of two distinct songs with loop enabled
C25_Witness ==
    \E g \in Guilds :
        /\ Looping(g)
        /\ Len(Queue(g)) = 2
        /\ Queue(g)[1] # Queue(g)[2]
        /\ Queue(g)[2] = now_playing[g]
        /\ resolving[g] # EmptyBag

\* C26: with loop enabled the popped song is back at the tail when the
\* advance releases the lock: the queue any other handler reads next is the
\* rotated queue, never the queue that lacks the popped song.
C26_LoopRotationNotObserved ==
    [][\A g \in Guilds :
          (play_next_locked(g) /\ Looping(g) /\ Queue(g) # <<>>)
              => /\ load_queue(queues', g) = Append(Tail(Queue(g)), Head(Queue(g)))
                 /\ queues' # pop_next_song(queues, g).store
                 /\ ~voice_locks'[g]]_vars

\* a looping advance has rotated a queue of three
C26_Witness ==
    \E g \in Guilds :
        /\ Looping(g)
        /\ Len(Queue(g)) = 3
        /\ Queue(g)[3] = now_playing[g]
        /\ ~voice_locks[g]
        /\ resolving[g] # EmptyBag

C28_NowPlayingPersisted ==
    [][\A g \in Guilds :
          (now_playing'[g] # now_playing[g] \/ play_next_locked(g) \/ stop_cmd(g))
              => LET before == load_guild_settings(guild_settings, g)
                     after == load_guild_settings(guild_settings', g)
                 IN  /\ after.last_played = now_playing'[g]
                     /\ after.previous_played = before.last_played
                     /\ after.volume_level = before.volume_level
                     /\ after.is_looping = before.is_looping]_vars

C28_Witness ==
    \E g \in Guilds :
        LET settings == load_guild_settings(guild_settings, g)
        IN  /\ now_playing[g] # None
            /\ settings.last_played = now_playing[g]
            /\ settings.previous_played # None
            /\ settings.previous_played # settings.last_played
            /\ settings.is_looping

\* the stored settings of guild g
Settings(g) == load_guild_settings(guild_settings, g)

\* C29: every load-change-save of a guild's queue or settings is one step on
\* the value stored right before it, so that under every interleaving the
\* stored value is the result of the edits in the order they ran: an enqueue
\* appends to the stored queue, a pop removes its head, a remove deletes the
\* item at its position, a loop toggle and a volume set change their own
\* field only, and the stored last_played is the current song.
C29_AtomicEdits ==
    [][\A g \in Guilds :
          /\ \A title \in Titles :
                playurl_enqueue(g, title)
                    => load_queue(queues', g) = Append(Queue(g), build_song_dict(title, 0))
          /\ (play_next_locked(g) /\ Queue(g) # <<>>)
                => load_queue(queues', g) =
                       IF Looping(g) THEN Append(Tail(Queue(g)), Head(Queue(g)))
                       ELSE Tail(Queue(g))
          /\ \A position \in 1..MaxQueue :
                remove_cmd(g, position)
                    => load_queue(queues', g) =
                           IF position <= Len(Queue(g))
                           THEN RemoveAt(Queue(g), position) ELSE Queue(g)
          /\ loop_cmd(g)
                => load_guild_settings(guild_settings', g) =
                       [Settings(g) EXCEPT !.is_looping = ~@]
          /\ \A level \in EditLevels :
                volume_cmd(g, level)
                    => load_guild_settings(guild_settings', g) =
                           [Settings(g) EXCEPT !.volume_level = level]
          /\ load_guild_settings(guild_settings', g).last_played = now_playing'[g]]_vars

\* a volume was set, then songs were enqueued, popped and started and the
\* loop flag toggled: the volume is still the one set
C29_Witness ==
    \E g \in Guilds :
        /\ fnOut.op = "volume_cmd"
        /\ fnOut.reply = "set"
        /\ Settings(g).volume_level = 72
        /\ Settings(g).is_looping
        /\ Settings(g).last_played # None
        /\ Settings(g).previous_played # None
        /\ Queue(g) # <<>>

\* C30: pause and resume change only whether the stream is paused: queue,
\* current song and stored settings are unchanged, the stream stays the
\* same, and no advance is started.
C30_PauseOnlyPauses ==
    [][\A g \in Guilds :
          pause_resume(g)
              => /\ queues' = queues
                 /\ guild_settings' = guild_settings
                 /\ now_playing' = now_playing
                 /\ scheduled' = scheduled
                 /\ afterPending' = afterPending
                 /\ resolving' = resolving
                 /\ connected' = connected
                 /\ Len(streams'[g]) = Len(streams[g])
                 /\ \A i \in 1..Len(streams[g]) :
                       /\ streams'[g][i].song = streams[g][i].song
                       /\ streams'[g][i].volume = streams[g][i].volume
                       /\ streams'[g][i].paused = ~streams[g][i].paused]_vars

C30_Witness ==
    \E g \in Guilds :
        /\ lastCmd[g].cmd = "pause_resume"
        /\ is_paused(g)
        /\ now_playing[g] # None
        /\ Queue(g) # <<>>

\* C31: in a lyrics lookup the Genius search is requested only after
\* get_lyrics_from_ovh returned no text; a text that lyrics.ovh returns is
\* cached under the best key and returned; a lookup whose best key holds an
\* entry that has not expired returns that entry and makes no request.
C31_PrimaryFirst ==
    [][\A l \in Lookups :
          /\ (lookups'[l].step = "search" /\ lookups[l].step # "search")
                => \/ start(l, "")
                   \/ \E answer \in OvhAnswers \ {"text"} : ovh_done(l, answer)
          /\ ovh_done(l, "text")
                => LET key == BestKey(lookups[l].artist)
                   IN  /\ lookups'[l] = Idle
                       /\ fnOut'.value = "ovh lyrics"
                       /\ cache'[key] = [present |-> TRUE, val |-> "ovh lyrics",
                                         expiry |-> clock + 3600]
          /\ \A artist \in Artists :
                (start(l, artist) /\ cache[BestKey(artist)].present
                     /\ clock <= cache[BestKey(artist)].expiry)
                    => /\ lookups'[l] = Idle
                       /\ permits' = permits
                       /\ fnOut'.value = cache[BestKey(artist)].val
                       /\ cache' = cache]_vars

\* a lookup made at the last second of the TTL returned the text lyrics.ovh
\* gave at time 0, while the other call is not in a request
C31_Witness ==
    /\ fnOut.op = "get_best_lyrics"
    /\ fnOut.after = "cached"
    /\ fnOut.value = "ovh lyrics"
    /\ clock = CACHE_TTL
    /\ cache[BestKey("x")].expiry = CACHE_TTL
    /\ Fetching = {}

\* C32: whenever a hit that _looks_like_non_song does not reject has a URL
\* containing "-lyrics", the hit _select_best_genius_result selects has such
\* a URL, whatever the type, artist, title and position of the other hits.
C32_LyricsPageStrictlyPreferred ==
    (fnOut.op = "select_best_genius_result"
        /\ \E i \in 1..Len(fnIn.hits) :
               ~looks_like_non_song(fnIn.hits[i]) /\ fnIn.hits[i].url.lyrics)
        => fnOut.best.url.lyrics

\* C33: every audio stream an advance starts has the volume stored for the
\* guild at that moment, for a song of any play command.
C33_StartsAtStoredVolume ==
    [][\A g \in Guilds : \A t \in BagToSet(resolving[g]) :
          (ResolveOk(g, t) /\ t.vcLive)
              => streams'[g][Len(streams'[g])].volume = StoredVolume(g)]_vars

\* C34: /remove with a position p in 1..len(queue) removes exactly the song
\* at position p and keeps the order of the others; with any other p it
\* replies that the position is invalid and leaves the queue as it was.
C34_RemoveAtPosition ==
    [][\A g \in Guilds : \A position \in Positions :
          remove_cmd(g, position)
              => LET q == Queue(g)
                     r == load_queue(queues', g)
                 IN  IF 1 <= position /\ position <= Len(q)
                     THEN /\ fnOut'.reply = "removed"
                          /\ Len(r) = Len(q) - 1
                          /\ \A i \in 1..Len(r) :
                                r[i] = IF i < position THEN q[i] ELSE q[i + 1]
                     ELSE /\ fnOut'.reply = "invalid"
                          /\ queues' = queues]_vars

\* the queue was emptied by valid removes and a further /remove 1 was refused
C34_Witness ==
    \E g \in Active :
        /\ lastCmd[g].cmd = "remove"
        /\ fnOut.op = "remove_cmd"
        /\ fnOut.reply = "invalid"
        /\ queues[g].present
        /\ Queue(g) = <<>>

\* the decision of _is_likely_lyrics as C35 words it, on the lines of a text
LikelyAsStated(lines) ==
    LET first == SubSeq(lines, 1, Min(20, Len(lines)))
    IN  IF Cardinality({i \in 1..Len(lines) : lines[i].len > 180}) >= 3
           /\ Cardinality({i \in 1..Len(lines) : lines[i].len <= 80}) < 5
        THEN FALSE
        ELSE IF Cardinality({i \in 1..Len(lines) : lines[i].month \/ lines[i].day}) > 5
        THEN FALSE
        ELSE IF \E i \in 1..Len(first) : first[i].bracket THEN TRUE
        ELSE 2 * Cardinality({i \in 1..Len(first) : first[i].len < 120}) >= Len(first)

\* C35: _is_likely_lyrics rejects when at least 3 lines exceed 180 characters
\* and fewer than 5 have at most 80; else rejects when more than 5 lines hold
\* a month name or start with a day number; else accepts when one of the
\* first 20 lines is a bracketed marker; else accepts exactly when at least
\* half of the first 20 lines are shorter than 120 characters.
C35_ValidationOrder ==
    fnOut.op = "is_likely_lyrics" => fnOut.value = LikelyAsStated(LinesOf(fnIn.text))

\* C36: whenever an audio stream is active in a guild, the guild's current
\* song is not null and is the song of that stream, under every interleaving
\* of play requests, advances and completion callbacks.
C36_StreamIsCurrentSong ==
    \A g \in Guilds : \A i \in 1..Len(streams[g]) :
        now_playing[g] # None /\ streams[g][i].song = now_playing[g]

\* C37: a stream that has started ends only by its natural completion or by
\* a skip, stop or leave command: no advance that a play request or a
\* callback started stops a stream that is still playing.  A player that
\* ends, however it ends, owes its after callback.
C37_OnlyCompletionOrCommandEnds ==
    [][\A g \in Guilds :
          afterPending'[g] > afterPending[g]
              => StreamEnds(g) \/ skip_cmd(g) \/ stop_cmd(g) \/ leave(g)]_vars

\* C38: no popped song is lost: whenever the current song of a guild is not
\* null and no advance of the guild is running or scheduled (and no ended
\* player still owes its callback), the voice client of the guild is playing
\* or paused on that song.
C38_PoppedSongNotLost ==
    \A g \in Guilds :
        (now_playing[g] # None /\ InFlight(g) = 0)
            => /\ connected[g]
               /\ streams[g] # <<>>
               /\ \A i \in 1..Len(streams[g]) : streams[g][i].song = now_playing[g]

\* C39: an idle timer never releases the voice connection of a guild while a
\* song is playing or paused there, also when the timer was armed in an
\* earlier idle period.
C39_TimerSparesPlayback ==
    [][\A g \in Guilds :
          (idle_disconnect(g, TRUE) /\ (is_playing(g) \/ is_paused(g)))
              => connected'[g]]_vars

====
